---- MODULE Spec2Model ----
(***************************************************************************)
(* A model of mtpy/processing/pile.py: the aggregate index kept by         *)
(* TracesGroup (TracesFile, SubPile, Pile), the data life cycle of a       *)
(* TracesFile (load_data / use_data / drop_data / reload_if_modified),     *)
(* the windowed chopper of Pile and its incomplete-window filter, the      *)
(* listeners of a Pile, TracesFileCache and the loader generator.          *)
(*                                                                         *)
(* The source is Python 2.  Times are integers; Python's None is the       *)
(* value None below, and the Python 2 ordering of None below every number  *)
(* is what PyMin and PyMax compute.                                        *)
(*                                                                         *)
(* The specifications share the variables:                                 *)
(*   SpecFile  the life cycle of one TracesFile,                           *)
(*   Spec      add_files / remove_file(s) / reload_modified on a Pile,     *)
(*   SpecChop  the chopper generator over a Pile,                          *)
(*   SpecWeed  Pile._process_chopped on a list of chopped traces,          *)
(*   SpecTwo   two chopper generators, their next-calls interleaved,       *)
(*   SpecAdd   a Pile that only grows,                                     *)
(*   SpecEars  a Pile and its listeners,                                   *)
(*   SpecCache two processes with a TracesFileCache on one cache file,     *)
(*   SpecLoad  the loader generator with and without a cache,              *)
(*   SpecCut   Pile.chop with a group_selector,                            *)
(*   SpecGroup the grouped chopper, one chopper pass per gather key,       *)
(*   SpecShare two chopper generators under any accessor ids, with         *)
(*             reload_modified in between,                                 *)
(*   SpecMem   reload_modified on a Pile that holds MemTracesFiles.        *)
(***************************************************************************)
EXTENDS Integers, Sequences, FiniteSets, TLC

VARIABLES
    disk,        \* [Files -> [mtime, traces]]: what os.stat and io.load see
    node,        \* [Files -> TracesFile object]
    subpiles,    \* Pile.subpiles: dispatch key -> SubPile object
    pile,        \* the Pile's own index (TracesGroup fields)
    open_files,  \* Pile.open_files: accessor id -> set of files
    chop,        \* the chopper generator: its arguments, position and history
    raised,      \* the exception the last operation raised, or NoError
    last,        \* history: the last Pile operation and what it returned
    trail,       \* history: the last two TracesFile operations
    wd,          \* _process_chopped: its arguments and its result
    other,       \* a second chopper generator, suspended while chop runs
    listeners,   \* Pile.listeners: the weak references, in subscription order
    obj,         \* the objects the weak references point to
    heard,       \* history: what the last Pile operation told each listener
    store,       \* the cache directory and the source files it speaks of
    cache,       \* the TracesFileCache objects of the processes
    ld           \* the loader generator

vars ==
    <<disk, node, subpiles, pile, open_files, chop, raised, last, trail, wd,
      other, listeners, obj, heard, store, cache, ld>>

pileVars == <<subpiles, pile, open_files>>

xVars == <<store, cache, ld>>

otherVars == <<chop, wd, other, xVars>>

earVars == <<listeners, obj, heard>>

(***************************************************************************)
(* Bounds                                                                  *)
(***************************************************************************)
NFiles == 2
NIds == 2
MaxTime == 2
MaxMods == 1
MaxUse == 2

Files == 1..NFiles
Ids == 1..NIds
Times == 0..MaxTime

\* Python's None: a value apart from every time of the model.  Python 2 orders
\* None below every number.
None == -1000

NoError == "none"

\* A TracesFile in no SubPile has parent None; a SubPile is named by its key,
\* a pair, and NoParent is the empty tuple.
NoParent == <<>>

\* The 4-part identity (network, station, location, channel) of trace id i.
Nslc(i) == <<(i + 1) \div 2, i, 0, i % 2>>

(***************************************************************************)
(* min and max as Python 2 computes them when an argument may be None      *)
(***************************************************************************)
PyMin(a, b) == IF a = None \/ b = None THEN None ELSE IF b < a THEN b ELSE a

PyMax(a, b) == IF a = None THEN b ELSE IF b = None THEN a ELSE IF b > a THEN b ELSE a

\* a >= b as Python 2 decides it.
PyGE(a, b) == b = None \/ (a # None /\ a >= b)

(***************************************************************************)
(* TracesGroup: the index                                                  *)
(***************************************************************************)
TupleThreshold == 32

\* TracesGroup.empty
EmptyGroup ==
    [networks |-> {}, stations |-> {}, locations |-> {}, channels |-> {},
     nslc_ids |-> {}, tmin |-> None, tmax |-> None, have_tuples |-> FALSE]

\* What a trace.Trace contributes to update(): its four parts, its nslc_id, its extent.
TraceContent(tr) ==
    [networks |-> {Nslc(tr.id)[1]}, stations |-> {Nslc(tr.id)[2]},
     locations |-> {Nslc(tr.id)[3]}, channels |-> {Nslc(tr.id)[4]},
     nslc_ids |-> {Nslc(tr.id)}, tmin |-> tr.tmin, tmax |-> tr.tmax]

TraceContents(traces) == [i \in 1..Len(traces) |-> TraceContent(traces[i])]

\* The spoiled fold step of a plausible slip: max taken where min is meant.
UpdateStepSwapped(g, c) ==
    [g EXCEPT !.networks = @ \cup c.networks,
              !.stations = @ \cup c.stations,
              !.locations = @ \cup c.locations,
              !.channels = @ \cup c.channels,
              !.nslc_ids = @ \cup c.nslc_ids,
              !.tmin = IF g.tmin = None THEN c.tmin ELSE PyMax(g.tmin, c.tmin),
              !.tmax = IF g.tmax = None THEN c.tmax ELSE PyMax(g.tmax, c.tmax)]

\* One turn of the loop "for c in content" of TracesGroup.update.
UpdateStep(g, c) ==
    [g EXCEPT !.networks = @ \cup c.networks,
              !.stations = @ \cup c.stations,
              !.locations = @ \cup c.locations,
              !.channels = @ \cup c.channels,
              !.nslc_ids = @ \cup c.nslc_ids,
              !.tmin = IF g.tmin = None THEN c.tmin ELSE PyMin(g.tmin, c.tmin),
              !.tmax = IF g.tmax = None THEN c.tmax ELSE PyMax(g.tmax, c.tmax)]

RECURSIVE UpdateLoop(_, _)
UpdateLoop(g, content) ==
    IF content = <<>> THEN g
    ELSE UpdateLoop(UpdateStep(g, Head(content)), Tail(content))

\* TracesGroup._convert_small_sets_to_tuples: the elements stay the same, the
\* flag records that some set is now held as a tuple.
ConvertSmallSetsToTuples(g) ==
    [g EXCEPT !.have_tuples =
        \/ Cardinality(g.networks) < TupleThreshold
        \/ Cardinality(g.stations) < TupleThreshold
        \/ Cardinality(g.locations) < TupleThreshold
        \/ Cardinality(g.channels) < TupleThreshold
        \/ Cardinality(g.nslc_ids) < TupleThreshold]

\* TracesGroup._convert_tuples_to_sets
ConvertTuplesToSets(g) == [g EXCEPT !.have_tuples = FALSE]

\* TracesGroup.update(content, empty); content is a sequence of contributions.
\* (nupdates, a write-only counter of this file, is not kept.)
Update(g, content, empty) ==
    LET start == IF empty THEN EmptyGroup
                 ELSE IF g.have_tuples THEN ConvertTuplesToSets(g) ELSE g
        done == UpdateLoop(start, content)
    IN  IF empty THEN ConvertSmallSetsToTuples(done) ELSE done

(***************************************************************************)
(* What a file can hold: no trace, or one trace of a single sample (its    *)
(* tmin and tmax are the same instant).                                    *)
(***************************************************************************)
TraceSet ==
    {tr \in [id : Ids, tmin : Times, tmax : Times] : tr.tmin = tr.tmax}

Contents == {<<>>} \cup {<<tr>> : tr \in TraceSet}

(***************************************************************************)
(* TracesFile                                                              *)
(***************************************************************************)
\* TracesFile.load_headers(mtime): d is the file on disk.
LoadHeaders(n, d, mtime) ==
    [n EXCEPT !.mtime = IF mtime = None THEN d.mtime ELSE @,
              !.traces = d.traces,
              !.has_data = FALSE,
              !.data_loaded = FALSE,
              !.data_use_count = 0]

\* A chop that does not load the data of the files it uses.
LoadDataSkipped(n, d, force) == n

\* TracesFile.load_data(force)
LoadData(n, d, force) ==
    IF ~n.data_loaded \/ force
    THEN [n EXCEPT !.traces = d.traces, !.has_data = TRUE, !.data_loaded = TRUE]
    ELSE n

\* drop_data that forgets the data whatever the count.
DropDataEager(n) ==
    IF n.data_loaded
    THEN [n EXCEPT !.has_data = FALSE, !.data_loaded = FALSE, !.data_use_count = @ - 1]
    ELSE [n EXCEPT !.data_use_count = 0]

\* use_data that counts even when the data is not loaded.
UseDataUnguarded(n) == [n EXCEPT !.data_use_count = @ + 1]

\* TracesFile.use_data: raises when the data is not loaded.
UseDataRaises(n) == ~n.data_loaded

UseData(n) ==
    IF ~n.data_loaded THEN n ELSE [n EXCEPT !.data_use_count = @ + 1]

\* drop_data that forgets the data when the counter is already 0.
DropDataOffByOne(n) ==
    IF n.data_loaded
    THEN [n EXCEPT !.has_data = IF n.data_use_count = 0 THEN FALSE ELSE @,
                   !.data_loaded = IF n.data_use_count = 0 THEN FALSE ELSE @,
                   !.data_use_count = @ - 1]
    ELSE [n EXCEPT !.data_use_count = 0]

\* TracesFile.drop_data
DropData(n) ==
    IF n.data_loaded
    THEN [n EXCEPT !.has_data = IF n.data_use_count = 1 THEN FALSE ELSE @,
                   !.data_loaded = IF n.data_use_count = 1 THEN FALSE ELSE @,
                   !.data_use_count = @ - 1]
    ELSE [n EXCEPT !.data_use_count = 0]

\* TracesFile.reload_if_modified: its return value and its effect.
ReloadIfModifiedResult(n, d) == d.mtime # n.mtime

ReloadIfModified(n, d) ==
    IF d.mtime # n.mtime
    THEN LET n1 == [n EXCEPT !.mtime = d.mtime]
             n2 == IF n1.data_loaded THEN LoadData(n1, d, TRUE)
                   ELSE LoadHeaders(n1, d, None)
         IN  [n2 EXCEPT !.idx = Update(n2.idx, TraceContents(n2.traces), TRUE)]
    ELSE n

\* TracesFile.__init__(parent, abspath, format, mtime=mtime)
TracesFileInit(parent, d, mtime) ==
    LET n0 == [idx |-> EmptyGroup, parent |-> parent, traces |-> <<>>,
               has_data |-> FALSE, data_loaded |-> FALSE, data_use_count |-> 0,
               mtime |-> None]
        n1 == LoadHeaders(n0, d, mtime)
        n2 == [n1 EXCEPT !.idx = Update(n1.idx, TraceContents(n1.traces), TRUE)]
    IN  [n2 EXCEPT !.mtime = mtime]

(***************************************************************************)
(* The files on disk                                                       *)
(***************************************************************************)
\* Calendar months, as time.gmtime sees them, are MonthLen time units long.
MonthLen == 2

\* At the start file f holds one single-instant trace, in month f - 1.
InitContent(f) ==
    <<[id |-> ((f - 1) % NIds) + 1,
       tmin |-> ((f - 1) * MonthLen) % (MaxTime + 1),
       tmax |-> ((f - 1) * MonthLen) % (MaxTime + 1)]>>

Idle == [pc |-> "idle"]

NoWeed == [pc |-> "none"]

NoLast == [op |-> "none", result |-> FALSE]

NoStore == [pc |-> "none"]
NoCache == [pc |-> "none"]
NoLoader == [pc |-> "none"]

(***************************************************************************)
(* Pile.listeners                                                          *)
(***************************************************************************)
NListeners == 2

\* The objects that may be handed to add_listener.
Listeners == 1..NListeners

Silence == [l \in Listeners |-> <<>>]

\* ref(): the object, or None once it has been destroyed; "if obj:" then
\* asks for the truth value of the object.
Called(o) == o.alive /\ o.truth

\* Pile.notify_listeners(what): pile_changed(what) on every reference in turn.
\* seen is the index of the Pile at the time of the call.
RECURSIVE NotifyLoop(_, _, _, _, _)
NotifyLoop(h, refs, ob, what, seen) ==
    IF refs = <<>> THEN h
    ELSE NotifyLoop(IF Called(ob[Head(refs)])
                    THEN [h EXCEPT ![Head(refs)] = Append(@, [what |-> what, seen |-> seen])]
                    ELSE h,
                    Tail(refs), ob, what, seen)

NotifyListeners(what, seen) == NotifyLoop(Silence, listeners, obj, what, seen)

RECURSIVE SumMtime(_)
SumMtime(S) ==
    IF S = {} THEN 0
    ELSE LET f == CHOOSE x \in S : TRUE IN disk[f].mtime + SumMtime(S \ {f})

\* The file is rewritten on disk: new content, later modification time.
Modify(f) ==
    /\ SumMtime(Files) < MaxMods
    /\ \E c \in Contents :
        disk' = [disk EXCEPT ![f] = [mtime |-> disk[f].mtime + 1, traces |-> c]]
    /\ last' = NoLast
    /\ UNCHANGED <<node, pileVars, otherVars, earVars, raised, trail>>

(***************************************************************************)
(* SpecFile: one TracesFile, driven through its public methods while the   *)
(* file on disk may be rewritten.                                          *)
(***************************************************************************)
TheFile == 1

\* No operation yet: the headers were loaded by the constructor, from the
\* file as InitDisk has it.
NoOp == [op |-> "none", f |-> 0, loaded |-> FALSE, count |-> 0, ret |-> FALSE,
         seen |-> 0, d |-> [mtime |-> 0]]

\* The mtime the file had when its headers were last loaded, after the
\* operation e: load_headers loads them, and so does a reload_if_modified
\* that reloads.
SeenAfter(e) ==
    IF e.op = "load_headers" \/ (e.op = "reload_if_modified" /\ e.ret)
    THEN e.d.mtime ELSE e.seen

\* The trail remembers, for the last two operations on a TracesFile, which
\* operation it was and what data_loaded and data_use_count were before it;
\* also the TracesFile (was) and the file on disk (d) as they were, the
\* mtime of the file at the last load of the headers before it (seen), and
\* what reload_if_modified returned (ret).
Step(op, f) ==
    <<trail[2], [op |-> op, f |-> f, loaded |-> node[f].data_loaded,
                 count |-> node[f].data_use_count,
                 was |-> node[f], d |-> disk[f], seen |-> SeenAfter(trail[2]),
                 ret |-> op = "reload_if_modified"
                         /\ ReloadIfModifiedResult(node[f], disk[f])]>>

InitDisk == disk = [f \in Files |-> [mtime |-> 0, traces |-> InitContent(f)]]

\* Nothing subscribed, no second generator, no cache in use.
InitQuiet ==
    /\ other = Idle
    /\ listeners = <<>>
    /\ obj = [l \in Listeners |-> [alive |-> TRUE, truth |-> TRUE]]
    /\ heard = Silence
    /\ store = NoStore
    /\ cache = NoCache
    /\ ld = NoLoader

InitRest ==
    /\ InitQuiet
    /\ subpiles = <<>>
    /\ pile = Update(EmptyGroup, <<>>, TRUE)
    /\ open_files = <<>>
    /\ chop = Idle
    /\ raised = NoError
    /\ last = NoLast
    /\ trail = <<NoOp, NoOp>>
    /\ wd = NoWeed

\* The node is built as the loader builds it (mtime given) or without an mtime.
InitFile ==
    /\ InitDisk
    /\ \E m \in {None, 0} :
        node = [f \in Files |->
                   TracesFileInit(NoParent, disk[f], IF f = TheFile THEN m ELSE 0)]
    /\ InitRest

FileLoadHeaders(f) ==
    /\ node' = [node EXCEPT ![f] = LoadHeaders(node[f], disk[f], None)]
    /\ raised' = NoError
    /\ trail' = Step("load_headers", f)
    /\ UNCHANGED <<disk, pileVars, otherVars, earVars, last>>

FileLoadData(f) ==
    /\ node' = [node EXCEPT ![f] = LoadData(node[f], disk[f], FALSE)]
    /\ raised' = NoError
    /\ trail' = Step("load_data", f)
    /\ UNCHANGED <<disk, pileVars, otherVars, earVars, last>>

FileUseData(f) ==
    /\ node[f].data_use_count < MaxUse
    /\ node' = [node EXCEPT ![f] = UseData(node[f])]
    /\ raised' = IF UseDataRaises(node[f]) THEN "Data not loaded" ELSE NoError
    /\ trail' = Step("use_data", f)
    /\ UNCHANGED <<disk, pileVars, otherVars, earVars, last>>

FileDropData(f) ==
    /\ node[f].data_use_count > -MaxUse
    /\ node' = [node EXCEPT ![f] = DropData(node[f])]
    /\ raised' = NoError
    /\ trail' = Step("drop_data", f)
    /\ UNCHANGED <<disk, pileVars, otherVars, earVars, last>>

FileReloadIfModified(f) ==
    /\ node' = [node EXCEPT ![f] = ReloadIfModified(node[f], disk[f])]
    /\ raised' = NoError
    /\ trail' = Step("reload_if_modified", f)
    /\ UNCHANGED <<disk, pileVars, otherVars, earVars, last>>

NextFile ==
    \/ Modify(TheFile)
    \/ FileLoadHeaders(TheFile)
    \/ FileLoadData(TheFile)
    \/ FileUseData(TheFile)
    \/ FileDropData(TheFile)
    \/ FileReloadIfModified(TheFile)

SpecFile == InitFile /\ [][NextFile]_vars

(***************************************************************************)
(* Claims about the TracesFile life cycle (checked under SpecFile)         *)
(***************************************************************************)
LastFile == node[trail[2].f]

\* C2: release (drop_data) on a node whose data_use_count is already zero
\* leaves it at zero, and data_use_count is never negative in any reachable
\* state, also when the data was loaded but never retained.
C2_ReleaseSaturatesAtZero ==
    /\ \A f \in Files : node[f].data_use_count >= 0
    /\ (trail[2].op = "drop_data" /\ trail[2].count = 0)
            => LastFile.data_use_count = 0

\* C3: retain (use_data) on a node whose data is not loaded raises the usage
\* error and leaves data_use_count and data_loaded as they were; on a loaded
\* node it raises nothing and adds exactly one to data_use_count.
C3_RetainContract ==
    trail[2].op = "use_data" =>
        IF trail[2].loaded
        THEN /\ raised = NoError
             /\ LastFile.data_use_count = trail[2].count + 1
             /\ LastFile.data_loaded
        ELSE /\ raised = "Data not loaded"
             /\ LastFile.data_use_count = trail[2].count
             /\ ~LastFile.data_loaded

C3_Witness ==
    /\ trail[2].op = "use_data"
    /\ ~trail[2].loaded
    /\ raised = "Data not loaded"
    /\ trail[1].op = "drop_data"

\* C4: on a loaded node, retain followed by exactly one release brings
\* data_use_count back to what it was before the retain; data_loaded is as
\* before when the counter is still nonzero, and false, with the trace data
\* dropped, when the counter is back at zero.
C4_RetainReleaseRoundTrip ==
    (/\ trail[1].op = "use_data" /\ trail[1].loaded
     /\ trail[2].op = "drop_data" /\ trail[2].f = trail[1].f)
        => /\ LastFile.data_use_count = trail[1].count
           /\ LastFile.data_use_count # 0 => LastFile.data_loaded = trail[1].loaded
           /\ LastFile.data_use_count = 0 => (~LastFile.data_loaded /\ ~LastFile.has_data)

C4_Witness ==
    /\ trail[1].op = "use_data" /\ trail[1].loaded
    /\ trail[2].op = "drop_data" /\ trail[2].f = trail[1].f
    /\ LastFile.data_use_count = 0
    /\ ~LastFile.data_loaded

\* C19: reload_if_modified returns False and changes nothing of the
\* TracesFile whenever the mtime of the file is the one it had when the
\* headers were last loaded, however the TracesFile was constructed (with an
\* mtime given or without); when the mtime differs it returns True, stores
\* the new mtime and recomputes the index, and a TracesFile whose data is
\* loaded stays loaded with data_use_count unchanged.
C19_ReloadOnlyWhenModified ==
    trail[2].op = "reload_if_modified" =>
        IF trail[2].d.mtime = trail[2].seen
        THEN /\ ~trail[2].ret
             /\ LastFile = trail[2].was
        ELSE /\ trail[2].ret
             /\ LastFile.mtime = trail[2].d.mtime
             /\ LastFile.idx = Update(EmptyGroup, TraceContents(trail[2].d.traces), TRUE)
             /\ trail[2].was.data_loaded =>
                    /\ LastFile.data_loaded
                    /\ LastFile.data_use_count = trail[2].was.data_use_count

\* C27: under load_data, use_data, drop_data, load_headers and
\* reload_if_modified in any order, a TracesFile with data_use_count > 0 has
\* its data loaded, and one whose data is not loaded has data_use_count 0.
C27_RetainedMeansLoaded ==
    \A f \in Files :
        /\ node[f].data_use_count > 0 => node[f].data_loaded
        /\ ~node[f].data_loaded => node[f].data_use_count = 0

\* The file was retained twice and has been dropped once: it is still
\* retained, and its data is still there.
C27_Witness ==
    /\ trail[2].op = "drop_data"
    /\ trail[2].count = 2
    /\ LastFile.data_use_count = 1 /\ LastFile.data_loaded
    /\ trail[1].op \in {"reload_if_modified", "use_data"}


(***************************************************************************)
(* SubPile and Pile: dispatch, add, remove, reload                         *)
(***************************************************************************)
\* add_files and remove_files take lists of up to MaxBatch files; the SubPiles
\* hold up to MaxEntries list entries together (a file may be added twice).
MaxBatch == NFiles

MaxEntries == NFiles

\* The year time.gmtime gives for time 0.
EpochYear == 1970

\* A key that tells the years apart and not the months.
DispatchKeyByYear(n) ==
    <<EpochYear + ((n.idx.tmin \div MonthLen) \div 12), 1>>

\* Pile.dispatch_key: (year, month) of time.gmtime(int(file.tmin)).
DispatchKey(n) ==
    <<EpochYear + ((n.idx.tmin \div MonthLen) \div 12),
      ((n.idx.tmin \div MonthLen) % 12) + 1>>

\* int(None) raises TypeError.
DispatchKeyRaises(n) == n.idx.tmin = None

\* SubPile.__init__
NewSubPile == [idx |-> EmptyGroup, files |-> <<>>]

\* Pile.dispatch: the SubPile of key k, made on first use.
Dispatch(subs, k) == IF k \in DOMAIN subs THEN subs ELSE subs @@ (k :> NewSubPile)

Perms(S) ==
    {p \in [1..Cardinality(S) -> S] : \A i, j \in 1..Cardinality(S) : p[i] = p[j] => i = j}

FileSeqs == UNION {[1..n -> Files] : n \in 0..MaxBatch}

RECURSIVE SumLen(_, _)
SumLen(subs, K) ==
    IF K = {} THEN 0
    ELSE LET k == CHOOSE x \in K : TRUE IN Len(subs[k].files) + SumLen(subs, K \ {k})

TotalEntries == SumLen(subpiles, DOMAIN subpiles)

\* The contributions of a list of files, and of a list of SubPiles, to update().
FileGroups(nd, fs) == [i \in 1..Len(fs) |-> nd[fs[i]].idx]

SubPileGroups(subs, order) == [i \in 1..Len(order) |-> subs[order[i]].idx]

\* A SubPile.add_file that rebuilds the index from the new file alone.
SubPileAddFileForgetful(st, k, f) ==
    [st EXCEPT !.subpiles[k].files = Append(@, f),
               !.node[f].parent = k,
               !.subpiles[k].idx = Update(@, <<st.node[f].idx>>, TRUE)]

\* SubPile.add_file; st holds the objects: [node, subpiles, ...].
SubPileAddFile(st, k, f) ==
    [st EXCEPT !.subpiles[k].files = Append(@, f),
               !.node[f].parent = k,
               !.subpiles[k].idx = Update(@, <<st.node[f].idx>>, FALSE)]

\* list.remove: the first occurrence goes.
RECURSIVE ListRemove(_, _)
ListRemove(seq, x) ==
    IF seq = <<>> THEN <<>>
    ELSE IF Head(seq) = x THEN Tail(seq)
    ELSE <<Head(seq)>> \o ListRemove(Tail(seq), x)

InList(seq, x) == \E i \in 1..Len(seq) : seq[i] = x

\* A SubPile.remove_file that leaves the index as it was.
SubPileRemoveFileStale(st, k, f) ==
    [st EXCEPT !.subpiles[k].files = ListRemove(@, f), !.node[f].parent = NoParent]

\* SubPile.remove_file (the file is in the list).
SubPileRemoveFile(st, k, f) ==
    LET s1 == [st EXCEPT !.subpiles[k].files = ListRemove(@, f),
                         !.node[f].parent = NoParent]
    IN  [s1 EXCEPT !.subpiles[k].idx =
                        Update(@, FileGroups(s1.node, s1.subpiles[k].files), TRUE)]

\* SubPile.remove_files: list.remove raises ValueError on a file that is not
\* in the list, and the SubPile's update() is then not reached.
RECURSIVE SubPileRemoveLoop(_, _, _)
SubPileRemoveLoop(st, k, fs) ==
    IF fs = <<>> THEN st
    ELSE IF ~InList(st.subpiles[k].files, Head(fs))
         THEN [st EXCEPT !.raised = "ValueError"]
         ELSE SubPileRemoveLoop(
                  [st EXCEPT !.subpiles[k].files = ListRemove(@, Head(fs)),
                             !.node[Head(fs)].parent = NoParent],
                  k, Tail(fs))

SubPileRemoveFiles(st, k, fs) ==
    LET s1 == SubPileRemoveLoop(st, k, fs)
    IN  IF s1.raised # NoError THEN s1
        ELSE [s1 EXCEPT !.subpiles[k].idx =
                            Update(@, FileGroups(s1.node, s1.subpiles[k].files), TRUE)]

\* A node made by MemTracesFile.__init__ has the field mem.
IsMem(n) == "mem" \in DOMAIN n

\* MemTracesFile.__init__(parent, traces): self.mtime = time.time().
MemTracesFileInit(parent, traces, now) ==
    [idx |-> Update(EmptyGroup, TraceContents(traces), TRUE), parent |-> parent,
     traces |-> traces, mtime |-> now, mem |-> TRUE]

\* SubPile.reload_modified: every file of the list in turn, then a rebuild
\* when one of them had changed.  st.modified is its return value.
\* MemTracesFile.reload_if_modified returns None, and modified |= None
\* raises TypeError.
RECURSIVE SubPileReloadLoop(_, _, _)
SubPileReloadLoop(st, fs, dk) ==
    IF fs = <<>> THEN st
    ELSE LET f == Head(fs)
         IN  IF IsMem(st.node[f])
             THEN [st EXCEPT !.raised = "TypeError"]
             ELSE SubPileReloadLoop(
                      [st EXCEPT !.node[f] = ReloadIfModified(@, dk[f]),
                                 !.modified = @ \/ ReloadIfModifiedResult(st.node[f], dk[f])],
                      Tail(fs), dk)

SubPileReloadModified(st, k, dk) ==
    LET s1 == SubPileReloadLoop([st EXCEPT !.modified = FALSE], st.subpiles[k].files, dk)
    IN  IF s1.raised = NoError /\ s1.modified
        THEN [s1 EXCEPT !.subpiles[k].idx =
                            Update(@, FileGroups(s1.node, s1.subpiles[k].files), TRUE)]
        ELSE s1

\* The loop of Pile.add_files: dispatch, SubPile.add_file, remember the SubPile.
RECURSIVE AddFilesLoop(_, _)
AddFilesLoop(st, fs) ==
    IF fs = <<>> THEN st
    ELSE IF DispatchKeyRaises(st.node[Head(fs)])
         THEN [st EXCEPT !.raised = "TypeError"]
         ELSE LET k == DispatchKey(st.node[Head(fs)])
                  s1 == [st EXCEPT !.subpiles = Dispatch(@, k)]
                  s2 == SubPileAddFile(s1, k, Head(fs))
              IN  AddFilesLoop([s2 EXCEPT !.modified = @ \cup {k}], Tail(fs))

Objects == [node |-> node, subpiles |-> subpiles, raised |-> NoError]

\* The loader hands out a new TracesFile for a path that is in no SubPile.
Contained(f) == \E k \in DOMAIN subpiles : InList(subpiles[k].files, f)

Scan(f) ==
    /\ ~Contained(f)
    /\ node' = [node EXCEPT ![f] = TracesFileInit(NoParent, disk[f], disk[f].mtime)]
    /\ node'[f] # node[f]
    /\ raised' = NoError
    /\ last' = NoLast
    /\ UNCHANGED <<disk, pileVars, otherVars, earVars, trail>>

\* Pile.add_files
PileAddFiles(fs) ==
    /\ TotalEntries + Len(fs) <= MaxEntries
    /\ \E st \in {AddFilesLoop(Objects @@ [modified |-> {}], fs)} :
           /\ node' = st.node
           /\ subpiles' = st.subpiles
           /\ raised' = st.raised
           /\ IF st.raised = NoError
              THEN \E order \in Perms(st.modified) :
                      pile' = Update(pile, SubPileGroups(st.subpiles, order), FALSE)
              ELSE pile' = pile
    /\ last' = [op |-> "add_files", result |-> FALSE]
    /\ heard' = IF raised' = NoError THEN NotifyListeners("add", pile') ELSE Silence
    /\ UNCHANGED <<disk, open_files, otherVars, listeners, obj, trail>>

\* Pile.add_file
PileAddFile(f) ==
    /\ TotalEntries + 1 <= MaxEntries
    /\ IF DispatchKeyRaises(node[f])
       THEN /\ raised' = "TypeError"
            /\ UNCHANGED <<node, subpiles, pile>>
       ELSE LET k == DispatchKey(node[f])
                st == SubPileAddFile([Objects EXCEPT !.subpiles = Dispatch(@, k)], k, f)
            IN  /\ node' = st.node
                /\ subpiles' = st.subpiles
                /\ pile' = Update(pile, <<node[f].idx>>, FALSE)
                /\ raised' = NoError
    /\ last' = [op |-> "add_file", result |-> FALSE]
    /\ heard' = IF raised' = NoError THEN NotifyListeners("add", pile') ELSE Silence
    /\ UNCHANGED <<disk, open_files, otherVars, listeners, obj, trail>>

\* Pile.remove_file
PileRemoveFile(f) ==
    /\ IF node[f].parent = NoParent
       THEN /\ raised' = "AttributeError"
            /\ UNCHANGED <<node, subpiles, pile>>
       ELSE IF ~InList(subpiles[node[f].parent].files, f)
       THEN /\ raised' = "ValueError"
            /\ UNCHANGED <<node, subpiles, pile>>
       ELSE \E st \in {SubPileRemoveFile(Objects, node[f].parent, f)} :
                /\ node' = st.node
                /\ subpiles' = st.subpiles
                /\ raised' = NoError
                /\ \E order \in Perms(DOMAIN st.subpiles) :
                      pile' = Update(pile, SubPileGroups(st.subpiles, order), TRUE)
    /\ last' = [op |-> "remove_file", result |-> FALSE]
    /\ heard' = IF raised' = NoError THEN NotifyListeners("remove", pile') ELSE Silence
    /\ UNCHANGED <<disk, open_files, otherVars, listeners, obj, trail>>

\* Pile.remove_files: the files of fs grouped by parent, in the order of fs.
RECURSIVE FilterByParent(_, _, _)
FilterByParent(nd, fs, k) ==
    IF fs = <<>> THEN <<>>
    ELSE IF nd[Head(fs)].parent = k
         THEN <<Head(fs)>> \o FilterByParent(nd, Tail(fs), k)
         ELSE FilterByParent(nd, Tail(fs), k)

\* The loop over subpile_files.iteritems(): a group whose parent is None
\* raises AttributeError, and so ends the loop.
RECURSIVE RemoveGroups(_, _, _)
RemoveGroups(st, order, groups) ==
    IF order = <<>> \/ st.raised # NoError THEN st
    ELSE IF Head(order) = NoParent
         THEN [st EXCEPT !.raised = "AttributeError"]
         ELSE RemoveGroups(SubPileRemoveFiles(st, Head(order), groups[Head(order)]),
                           Tail(order), groups)

PileRemoveFiles(fs) ==
    /\ LET parents == {node[fs[i]].parent : i \in 1..Len(fs)}
           groups == [k \in parents |-> FilterByParent(node, fs, k)]
       IN  \E order \in Perms(parents) :
             \E st \in {RemoveGroups(Objects, order, groups)} :
                 /\ node' = st.node
                 /\ subpiles' = st.subpiles
                 /\ raised' = st.raised
                 /\ IF st.raised = NoError
                    THEN \E all \in Perms(DOMAIN st.subpiles) :
                            pile' = Update(pile, SubPileGroups(st.subpiles, all), TRUE)
                    ELSE pile' = pile
    /\ last' = [op |-> "remove_files", result |-> FALSE]
    /\ heard' = IF raised' = NoError THEN NotifyListeners("remove", pile') ELSE Silence
    /\ UNCHANGED <<disk, open_files, otherVars, listeners, obj, trail>>

\* Pile.reload_modified: st.any is its return value.
RECURSIVE PileReloadLoop(_, _, _)
PileReloadLoop(st, order, dk) ==
    IF order = <<>> \/ st.raised # NoError THEN st
    ELSE LET s1 == SubPileReloadModified(st, Head(order), dk)
         IN  PileReloadLoop([s1 EXCEPT !.any = @ \/ s1.modified], Tail(order), dk)

PileReloadModified ==
    /\ \E order \in Perms(DOMAIN subpiles) :
         \E st \in {PileReloadLoop(Objects @@ [modified |-> FALSE, any |-> FALSE],
                                   order, disk)} :
             /\ node' = st.node
             /\ subpiles' = st.subpiles
             /\ raised' = st.raised
             /\ last' = [op |-> "reload_modified",
                         result |-> st.any /\ st.raised = NoError]
             /\ IF st.any /\ st.raised = NoError
                THEN \E all \in Perms(DOMAIN st.subpiles) :
                        pile' = Update(pile, SubPileGroups(st.subpiles, all), TRUE)
                ELSE pile' = pile
    /\ heard' = IF last'.result THEN NotifyListeners("modified", pile') ELSE Silence
    /\ UNCHANGED <<disk, open_files, otherVars, listeners, obj, trail>>

(***************************************************************************)
(* Spec: a Pile under add, remove and reload, while files are rewritten    *)
(***************************************************************************)
Init ==
    /\ InitDisk
    /\ node = [f \in Files |-> TracesFileInit(NoParent, disk[f], disk[f].mtime)]
    /\ InitRest

Next ==
    \/ \E f \in Files : Modify(f)
    \/ \E f \in Files : Scan(f)
    \/ \E fs \in FileSeqs : PileAddFiles(fs)
    \/ \E f \in Files : PileAddFile(f)
    \/ \E f \in Files : PileRemoveFile(f)
    \/ \E fs \in FileSeqs : PileRemoveFiles(fs)
    \/ PileReloadModified

Spec == Init /\ [][Next]_vars

(***************************************************************************)
(* Claims about the index (checked under Spec)                             *)
(***************************************************************************)
FilesOf(k) == {subpiles[k].files[i] : i \in 1..Len(subpiles[k].files)}

PileFiles == UNION {FilesOf(k) : k \in DOMAIN subpiles}

WithTraces(F) == {f \in F : node[f].traces # <<>>}

MinOf(S) == IF S = {} THEN None ELSE CHOOSE t \in S : \A u \in S : t <= u

MaxOf(S) == IF S = {} THEN None ELSE CHOOSE t \in S : \A u \in S : t >= u

\* The index g is exactly what the files F hold: span and identity sets.
IndexExact(g, F) ==
    /\ g.tmin = MinOf({node[f].idx.tmin : f \in WithTraces(F)})
    /\ g.tmax = MaxOf({node[f].idx.tmax : f \in WithTraces(F)})
    /\ g.networks = UNION {node[f].idx.networks : f \in F}
    /\ g.stations = UNION {node[f].idx.stations : f \in F}
    /\ g.locations = UNION {node[f].idx.locations : f \in F}
    /\ g.channels = UNION {node[f].idx.channels : f \in F}
    /\ g.nslc_ids = UNION {node[f].idx.nslc_ids : f \in F}

AfterFullRebuild ==
    /\ raised = NoError
    /\ \/ last.op \in {"remove_file", "remove_files"}
       \/ last.op = "reload_modified" /\ last.result

\* C1: after remove_file / remove_files, and after a reload_modified that
\* found a changed file, the span of every SubPile and of the Pile is the
\* min tmin / max tmax over the files it still contains (None/None exactly
\* when it contains no trace) and its identity sets are the union of those
\* files' identity sets, whatever the order in which the SubPiles are visited.
C1_RebuildIsExact ==
    AfterFullRebuild =>
        /\ IndexExact(pile, PileFiles)
        /\ \A k \in DOMAIN subpiles : IndexExact(subpiles[k].idx, FilesOf(k))

\* The places <<k, i>> at which f stands in the lists of the SubPiles.
Places(f) ==
    UNION {{<<k, i>> : i \in {j \in 1..Len(subpiles[k].files) : subpiles[k].files[j] = f}} :
              k \in DOMAIN subpiles}

\* C20: in every reachable state each TracesFile stands in at most one
\* SubPile, at most once, and its parent is that SubPile, or None exactly
\* when it stands in none -- also after a file that is already in the Pile,
\* or that was handed out twice, has been added again.
C20_OneBucketOneParent ==
    \A f \in Files :
        /\ Cardinality(Places(f)) <= 1
        /\ \A pl \in Places(f) : node[f].parent = pl[1]
        /\ Places(f) = {} <=> node[f].parent = NoParent

(***************************************************************************)
(* The chopper                                                             *)
(***************************************************************************)
MaxPad == 1
MaxInc == 2

Accessors == {"a1", "a2"}

\* What the caller may pass: the range is given or omitted (None), and so is
\* tinc.
ChopArgs ==
    [tmin : 0..(MaxTime - 1), tmax : 0..(MaxTime + 1),
     tinc : {None} \cup 1..MaxInc, tpad : 0..MaxPad,
     keep_current_files_open : BOOLEAN, accessor_id : Accessors,
     load_data : BOOLEAN]
    \cup
    [tmin : {None}, tmax : {None},
     tinc : {None} \cup 1..MaxInc, tpad : 0..MaxPad,
     keep_current_files_open : BOOLEAN, accessor_id : Accessors,
     load_data : BOOLEAN]

\* The test that is_relevant has in a comment: a group that only touches
\* the start of the window is left out.
IsRelevantStrict(g, tmin, tmax) ==
    ~(PyGE(g.tmin, tmax) \/ ~PyGE(g.tmax, tmin))

\* TracesGroup.is_relevant / overlaps, without a group_selector.
IsRelevant(g, tmin, tmax) == PyGE(tmax, g.tmin) /\ PyGE(g.tmax, tmin)

\* Pile.chop / SubPile.chop / TracesFile.chop: the files that report used=True
\* for the window [tmin, tmax]: in a relevant SubPile, relevant themselves,
\* holding a trace, with load_data asked for.
UsedFiles(nd, subs, tmin, tmax, load_data) ==
    {f \in Files :
        /\ load_data
        /\ nd[f].traces # <<>>
        /\ IsRelevant(nd[f].idx, tmin, tmax)
        /\ \E k \in DOMAIN subs :
              InList(subs[k].files, f) /\ IsRelevant(subs[k].idx, tmin, tmax)}

\* The default range that forgets the pad.
DefaultRangeNoPad(g, a) ==
    [tmin |-> IF a.tmin = None THEN g.tmin ELSE a.tmin,
     tmax |-> IF a.tmax = None THEN g.tmax ELSE a.tmax]

\* chopper, lines 808-812: the range, with the defaults for omitted ends.
DefaultRange(g, a) ==
    [tmin |-> IF a.tmin = None THEN g.tmin + a.tpad ELSE a.tmin,
     tmax |-> IF a.tmax = None THEN g.tmax - a.tpad ELSE a.tmax]

\* None + tpad raises TypeError.
DefaultRangeRaises(g, a) ==
    \/ a.tmin = None /\ g.tmin = None
    \/ a.tmax = None /\ g.tmax = None

\* chopper, lines 814-815.
DefaultInc(a, r) == IF a.tinc = None THEN r.tmax - r.tmin ELSE a.tinc

Min2(a, b) == IF a < b THEN a ELSE b

\* chopper, line 827: the bounds of window iwin.
WindowBounds(c) ==
    [wmin |-> c.tmin + c.iwin * c.tinc,
     wmax |-> Min2(c.tmin + (c.iwin + 1) * c.tinc, c.tmax)]

\* A loop test that lets one window too many through.
ExhaustedLate(c) ==
    (c.tmin + c.iwin * c.tinc) * 1000000 >= (c.tmax + c.tinc) * 1000000 - c.tinc

\* chopper, lines 828-829: eps = tinc*1e-6; if wmin >= tmax-eps: break.
Exhausted(c) ==
    (c.tmin + c.iwin * c.tinc) * 1000000 >= c.tmax * 1000000 - c.tinc

OpenSet(of, acc) == IF acc \in DOMAIN of THEN of[acc] ELSE {}

\* self.open_files[accessor_id] after setdefault and the changes of the set.
SetOpen(of, acc, S) ==
    [x \in DOMAIN of \cup {acc} |-> IF x = acc THEN S ELSE of[x]]

\* A clean-up that leaves the files in the open set retained.
FinishNoDrop(c, nd) == nd

\* chopper, lines 849-852: at the end every open file is dropped once, unless
\* the caller keeps the current files open.
Finish(c, nd) ==
    IF c.keep_current_files_open THEN nd
    ELSE [f \in Files |-> IF f \in c.open THEN DropData(nd[f]) ELSE nd[f]]

\* One turn of the loop from its top to the yield, or to the end of the
\* generator: what it leaves of the nodes nd0 and the open sets of, and the
\* generator after it.  c.open is the accessor's set open_files[accessor_id].
WindowStep(c, nd0, of) ==
    IF Exhausted(c)
    THEN [node |-> Finish(c, nd0),
          open_files |-> SetOpen(of, c.accessor_id,
                                 IF c.keep_current_files_open THEN c.open ELSE {}),
          chop |-> [c EXCEPT !.pc = "done", !.used = {},
                             !.open = IF c.keep_current_files_open THEN @ ELSE {}],
          raised |-> NoError]
    ELSE LET w == WindowBounds(c)
             used == UsedFiles(nd0, subpiles, w.wmin - c.tpad, w.wmax + c.tpad,
                               c.load_data)
             loaded == [f \in Files |->
                           IF f \in used THEN LoadData(nd0[f], disk[f], FALSE)
                           ELSE nd0[f]]
             new == used \ c.open
         IN  IF \E f \in new : UseDataRaises(loaded[f])
             THEN [node |-> loaded,
                   open_files |-> SetOpen(of, c.accessor_id, c.open),
                   chop |-> [c EXCEPT !.pc = "raised"],
                   raised |-> "Data not loaded"]
             ELSE [node |-> [f \in Files |->
                                IF f \in new THEN UseData(loaded[f]) ELSE loaded[f]],
                   open_files |-> SetOpen(of, c.accessor_id, c.open \cup used),
                   chop |-> [c EXCEPT !.pc = "yielded", !.used = used,
                                      !.open = c.open \cup used,
                                      !.windows = Append(@, w)],
                   raised |-> NoError]

\* The call of chopper with the first next() on the generator, up to the
\* first yield or the end.
ChopperBegin(a) ==
    IF DefaultRangeRaises(pile, a)
    THEN [node |-> node, open_files |-> open_files,
          chop |-> [pc |-> "raised", args |-> a], raised |-> "TypeError"]
    ELSE LET r == DefaultRange(pile, a)
             c == [pc |-> "start", args |-> a, tmin |-> r.tmin, tmax |-> r.tmax,
                   tinc |-> DefaultInc(a, r), tpad |-> a.tpad,
                   keep_current_files_open |-> a.keep_current_files_open,
                   accessor_id |-> a.accessor_id, load_data |-> a.load_data,
                   iwin |-> 0, used |-> {}, windows |-> <<>>,
                   open |-> OpenSet(open_files, a.accessor_id),
                   early |-> FALSE,
                   open0 |-> OpenSet(open_files, a.accessor_id),
                   count0 |-> [f \in Files |-> node[f].data_use_count]]
         IN  IF ~IsRelevant(pile, r.tmin - a.tpad, r.tmax + a.tpad)
             THEN [node |-> node, open_files |-> open_files,
                   chop |-> [c EXCEPT !.pc = "done", !.early = TRUE],
                   raised |-> NoError]
             ELSE WindowStep(c, node, open_files)

\* The call of chopper and the first next() on the generator.  What the
\* generator yields is recorded as the window bounds and the files used.
ChopperStart(a) ==
    /\ chop.pc = "idle"
    /\ \E st \in {ChopperBegin(a)} :
          /\ node' = st.node
          /\ open_files' = st.open_files
          /\ chop' = st.chop
          /\ raised' = st.raised
    /\ UNCHANGED <<disk, subpiles, pile, last, trail, wd, other, xVars, earVars>>

\* The generator c from its yield to the next yield or the end, lines
\* 840-847: the files the last window did not use are dropped and leave the
\* open set, then the loop turns.  open_files is the set object
\* self.open_files[accessor_id] itself, as whoever runs under this
\* accessor_id has left it.
ChopperResume(c0) ==
    LET open == OpenSet(open_files, c0.accessor_id)
        unused == open \ c0.used
        dropped == [f \in Files |->
                       IF f \in unused THEN DropData(node[f]) ELSE node[f]]
        c == [c0 EXCEPT !.open = open \ unused, !.iwin = @ + 1]
    IN  WindowStep(c, dropped, open_files)

\* next() on the suspended generator.
ChopperNext ==
    /\ chop.pc = "yielded"
    /\ \E st \in {ChopperResume(chop)} :
          /\ node' = st.node
          /\ open_files' = st.open_files
          /\ chop' = st.chop
          /\ raised' = st.raised
    /\ UNCHANGED <<disk, subpiles, pile, last, trail, wd, other, xVars, earVars>>

\* File f holds one trace that starts with month f and lasts dur.
SpanContent(f, dur) ==
    <<[id |-> ((f - 1) % NIds) + 1, tmin |-> (f - 1) * MonthLen,
       tmax |-> (f - 1) * MonthLen + dur]>>

\* The caller lets go of the generator: finished, failed, or suspended at a
\* yield and never resumed.  Nothing of the generator runs.
ChopperDiscard ==
    /\ chop.pc \in {"yielded", "done", "raised"}
    /\ chop' = Idle
    /\ UNCHANGED <<disk, node, pileVars, raised, last, trail, wd, other, xVars, earVars>>

\* make_pile / add_files: the Pile is built from the files found.
InitChop ==
    /\ \E dur \in {0, MonthLen - 1} :
          disk = [f \in Files |-> [mtime |-> 0, traces |-> SpanContent(f, dur)]]
    /\ \E fs \in FileSeqs :
          \E st \in {AddFilesLoop([node |-> [f \in Files |->
                                       TracesFileInit(NoParent, disk[f], disk[f].mtime)],
                                    subpiles |-> <<>>, raised |-> NoError,
                                    modified |-> {}], fs)} :
             /\ node = st.node
             /\ subpiles = st.subpiles
             /\ \E order \in Perms(st.modified) :
                   pile = Update(Update(EmptyGroup, <<>>, TRUE),
                                 SubPileGroups(st.subpiles, order), FALSE)
    /\ open_files = <<>>
    /\ chop = Idle
    /\ raised = NoError
    /\ last = NoLast
    /\ trail = <<NoOp, NoOp>>
    /\ wd = NoWeed
    /\ InitQuiet

NextChop ==
    \/ \E a \in ChopArgs : ChopperStart(a)
    \/ ChopperNext
    \/ ChopperDiscard

SpecChop == InitChop /\ [][NextChop]_vars

(***************************************************************************)
(* Claims on the chopper, under SpecChop                                   *)
(***************************************************************************)
\* The generator has resolved its range: it is suspended at a yield or has
\* returned.
Begun == chop.pc \in {"yielded", "done"}

Windows == chop.windows

C5_Case ==
    /\ Begun /\ ~chop.early
    /\ chop.args.tinc # None
    /\ chop.tmax >= chop.tmin
    /\ (chop.tmax - chop.tmin) % chop.tinc = 0

C5_N == (chop.tmax - chop.tmin) \div chop.tinc

\* C5: for tinc > 0 and a range of n*tinc that overlaps the span of the Pile,
\* the chopper yields exactly n windows and then ends; window i is
\* [tmin + i*tinc, min(tmin + (i+1)*tinc, tmax)], consecutive windows abut and
\* the last one ends at tmax.
C5_ExactWindows ==
    C5_Case =>
        /\ Len(Windows) <= C5_N
        /\ \A i \in 1..Len(Windows) :
              /\ Windows[i].wmin = chop.tmin + (i - 1) * chop.tinc
              /\ Windows[i].wmax = Min2(chop.tmin + i * chop.tinc, chop.tmax)
        /\ \A i \in 1..(Len(Windows) - 1) : Windows[i].wmax = Windows[i + 1].wmin
        /\ chop.pc = "yielded" => Len(Windows) = chop.iwin + 1
        /\ chop.pc = "done" =>
              /\ Len(Windows) = C5_N
              /\ C5_N > 0 => Windows[C5_N].wmax = chop.tmax

C5_Witness ==
    /\ C5_Case /\ chop.pc = "done"
    /\ C5_N = 3 /\ Len(Windows) = 3

C6_Case == Begun /\ chop.args.tmin = None /\ chop.args.tmax = None

\* C6 (as the code has it): with tmin and tmax omitted the range is the span
\* of the Pile drawn in by tpad at both ends, [Pile.tmin + tpad,
\* Pile.tmax - tpad]; the windows, if that range is not empty, start and end
\* there.
C6_DefaultRangeDrawnInByPad ==
    C6_Case =>
        /\ ~chop.early
        /\ chop.tmin = pile.tmin + chop.tpad
        /\ chop.tmax = pile.tmax - chop.tpad
        /\ chop.pc = "done" =>
              IF pile.tmin + chop.tpad >= pile.tmax - chop.tpad
              THEN Windows = <<>>
              ELSE /\ Windows[1].wmin = pile.tmin + chop.tpad
                   /\ Windows[Len(Windows)].wmax = pile.tmax - chop.tpad

C6_Witness ==
    /\ C6_Case /\ chop.pc = "done"
    /\ chop.tpad > 0
    /\ Len(Windows) >= 1

\* C6 (as stated): with tmin and tmax omitted the range is
\* [Pile.tmin, Pile.tmax] for every tpad >= 0.
C6_DefaultRangeIsSpan ==
    C6_Case => chop.tmin = pile.tmin /\ chop.tmax = pile.tmax

\* C7: with tinc omitted the chopper yields exactly one window [tmin, tmax],
\* for every range with tmin <= tmax that overlaps the span of the Pile, the
\* range of zero length included.
C7_OneWindowWhenTincOmitted ==
    (/\ chop.pc = "done" /\ ~chop.early
     /\ chop.args.tinc = None
     /\ chop.tmin <= chop.tmax)
    => Windows = <<[wmin |-> chop.tmin, wmax |-> chop.tmax]>>

C10_Case == chop.pc = "done" /\ ~chop.keep_current_files_open

Count(f) == node[f].data_use_count

\* C10 (as the code has it): when a chopper that does not keep files open
\* has gone through its loop to the end, the accessor's open set is empty and
\* every data_use_count is its value before the start less one for each file
\* that was in the accessor's open set at the start; a chopper whose range
\* misses the span of the Pile returns at once and changes neither.
C10_ExhaustionEmptiesOpenSet ==
    C10_Case =>
        IF chop.early
        THEN /\ OpenSet(open_files, chop.accessor_id) = chop.open0
             /\ \A f \in Files : Count(f) = chop.count0[f]
        ELSE /\ OpenSet(open_files, chop.accessor_id) = {}
             /\ \A f \in Files :
                   Count(f) = chop.count0[f] - (IF f \in chop.open0 THEN 1 ELSE 0)

C10_Witness ==
    /\ C10_Case /\ ~chop.early
    /\ chop.open0 # {}
    /\ Len(Windows) >= 2
    /\ \E f \in Files : f \notin chop.open0 /\ chop.count0[f] > 0

\* C10 (as stated): at the end the accessor's open set is empty and every
\* data_use_count is its value before the start.
C10_NoLeakAtExhaustion ==
    C10_Case =>
        /\ OpenSet(open_files, chop.accessor_id) = {}
        /\ \A f \in Files : Count(f) = chop.count0[f]

\* 1 if the condition holds, else 0.
One(b) == IF b THEN 1 ELSE 0

\* The suspended generator is resumed in this step.
Resumed == chop.pc = "yielded" /\ chop'.pc \in {"yielded", "done"}

\* Without keep_current_files_open: a file of the open set that the last
\* window did not use is dropped once and leaves the open set (and comes
\* back, used once more, only if the next window uses it); at the end the
\* files still open are dropped once.
ReleasedBetweenWindows ==
    LET unused == chop.open \ chop.used
    IN  /\ \A f \in unused :
              /\ Count(f)' = Count(f) - 1 + One(chop'.pc = "yielded" /\ f \in chop'.used)
              /\ f \in OpenSet(open_files', chop.accessor_id)
                    <=> (chop'.pc = "yielded" /\ f \in chop'.used)
        /\ \A f \in chop.used :
              Count(f)' = Count(f) - One(chop'.pc = "done")

\* With keep_current_files_open, as claimed: nothing is dropped between
\* windows, and at the end every file still open is dropped once.
ReleaseDeferred ==
    IF chop'.pc = "yielded"
    THEN /\ \A f \in Files :
               Count(f)' = Count(f) + One(f \in chop'.used \ chop.open)
         /\ OpenSet(open_files', chop.accessor_id) = chop.open \cup chop'.used
    ELSE /\ \A f \in Files : Count(f)' = Count(f) - One(f \in chop.open)
         /\ OpenSet(open_files', chop.accessor_id) = {}

\* C24: when the chopper is resumed after window i, every file of the
\* accessor's open set that window i did not use is dropped exactly once and
\* leaves the open set; with keep_current_files_open no file is dropped
\* between windows and all files still open are dropped at the end.
C24_ReleaseOnResume ==
    [][Resumed =>
          IF chop.keep_current_files_open THEN ReleaseDeferred
          ELSE ReleasedBetweenWindows]_vars

\* The part of C24 without keep_current_files_open.
C24_WithoutKeepOpen ==
    [][(Resumed /\ ~chop.keep_current_files_open) => ReleasedBetweenWindows]_vars

\* The accessor's open set when the loop comes to the window of this step,
\* and the counter of f there: at the first window as the call found them,
\* later as the drops after the last yield left them.
OpenAtWindow ==
    IF chop.pc = "yielded" THEN chop.used
    ELSE OpenSet(open_files, chop'.accessor_id)

CountAtWindow(f) ==
    IF chop.pc = "yielded" /\ f \in chop.open \ chop.used
    THEN DropData(node[f]).data_use_count
    ELSE Count(f)

\* The step ends at the yield of a window, with load_data.
WindowYielded == chop'.pc = "yielded" /\ chop'.load_data

\* C25: in a window step with load_data, use_data is called once on each
\* used file that is not yet in the accessor's open set and on no other file;
\* at the yield every used file is in the open set, has its data loaded and
\* a data_use_count of at least 1; and the chopper never raises 'Data not
\* loaded', whatever earlier choppers did under the same accessor_id.
C25_RetainNewlyUsedOnce ==
    [][/\ raised' # "Data not loaded"
       /\ WindowYielded =>
             /\ \A f \in Files :
                   Count(f)' = CountAtWindow(f) + One(f \in chop'.used \ OpenAtWindow)
             /\ \A f \in chop'.used :
                   /\ f \in OpenSet(open_files', chop'.accessor_id)
                   /\ node'[f].data_loaded
                   /\ Count(f)' >= 1]_vars

\* A later window of a chopper that found files open under its accessor_id
\* uses a file that was open already and one that was not.
C25_Witness ==
    /\ chop.pc = "yielded" /\ chop.load_data
    /\ chop.open0 # {}
    /\ Len(Windows) >= 2
    /\ \E f, g \in chop.used : f # g /\ Count(f) >= 1 /\ Count(g) >= 2

(***************************************************************************)
(* Pile._process_chopped: what becomes of the traces chopped for a window  *)
(***************************************************************************)
WeedEnd == 8
MaxDeltat == 2
MaxGapSamples == 5

Abs(x) == IF x < 0 THEN 0 - x ELSE x

\* The traces a window may come with: sample interval deltat, first sample at
\* tmin, last sample at tmax.
WeedTraces ==
    {tr \in [id : Ids, tmin : 0..WeedEnd, tmax : 0..WeedEnd, deltat : 1..MaxDeltat] :
        tr.tmin <= tr.tmax /\ (tr.tmax - tr.tmin) % tr.deltat = 0}

\* Trace.full_id: the 4-part identity, then the start time.
FullIdBefore(a, b) == a.id < b.id \/ (a.id = b.id /\ a.tmin < b.tmin)

\* chopped.sort(cmp on full_id): list.sort is stable.
RECURSIVE SortInsert(_, _)
SortInsert(sorted, tr) ==
    IF sorted = <<>> THEN <<tr>>
    ELSE IF FullIdBefore(tr, sorted[Len(sorted)])
         THEN Append(SortInsert(SubSeq(sorted, 1, Len(sorted) - 1), tr), sorted[Len(sorted)])
         ELSE Append(sorted, tr)

RECURSIVE SortByFullId(_)
SortByFullId(trs) ==
    IF trs = <<>> THEN <<>>
    ELSE SortInsert(SortByFullId(SubSeq(trs, 1, Len(trs) - 1)), trs[Len(trs)])

\* trace.degapper: traces of one identity and sample interval that abut or
\* overlap are merged into one contiguous trace.
RECURSIVE Degapper(_)
Degapper(trs) ==
    IF Len(trs) <= 1 THEN trs
    ELSE LET front == Degapper(SubSeq(trs, 1, Len(trs) - 1))
             a == front[Len(front)]
             b == trs[Len(trs)]
         IN  IF a.id = b.id /\ a.deltat = b.deltat /\ b.tmin <= a.tmax + a.deltat
             THEN [front EXCEPT ![Len(front)].tmax = IF b.tmax > a.tmax THEN b.tmax ELSE a.tmax]
             ELSE Append(front, b)

\* Trace.extend(tmin, tmax, fillmethod='repeat'): the trace is made to run
\* from tmin to tmax, the new samples repeating the edge values.
Extend(tr, tmin, tmax) == [tr EXCEPT !.tmin = tmin, !.tmax = tmax]

\* A tolerance of a whole sample.
WithinHalfSampleWide(e, deltat) == Abs(e) <= deltat

\* abs(e) <= 0.5*tr.deltat
WithinHalfSample(e, deltat) == 2 * Abs(e) <= deltat

\* 0. < emin <= 5.*tr.deltat and -5.*tr.deltat <= emax < 0.
ShortWithinFive(emin, emax, deltat) ==
    /\ 0 < emin /\ emin <= MaxGapSamples * deltat
    /\ 0 - MaxGapSamples * deltat <= emax /\ emax < 0

\* The list the incomplete-window filter works on.
Sorted(w) == IF w.degap THEN Degapper(SortByFullId(w.chopped)) ELSE SortByFullId(w.chopped)

Emin(w, tr) == tr.tmin - (w.wmin - w.tpad)
Emax(w, tr) == tr.tmax + tr.deltat - (w.wmax + w.tpad)

\* One turn of the loop over chopped: the trace as it is kept, or nothing.
\* src and extended record which trace of the list it was and whether
\* Trace.extend was called on it.
Weed(w, trs, i) ==
    LET tr == trs[i]
        kept == [id |-> tr.id, tmin |-> tr.tmin, tmax |-> tr.tmax, deltat |-> tr.deltat,
                 src |-> i, extended |-> FALSE]
    IN  IF ~w.want_incomplete
        THEN IF /\ WithinHalfSample(Emin(w, tr), tr.deltat)
                /\ WithinHalfSample(Emax(w, tr), tr.deltat)
             THEN <<kept>>
             ELSE IF w.degap /\ ShortWithinFive(Emin(w, tr), Emax(w, tr), tr.deltat)
                  THEN <<[kept EXCEPT !.tmin = Extend(tr, w.wmin - w.tpad,
                                                      w.wmax + w.tpad - tr.deltat).tmin,
                                      !.tmax = Extend(tr, w.wmin - w.tpad,
                                                      w.wmax + w.tpad - tr.deltat).tmax,
                                      !.extended = TRUE]>>
                  ELSE <<>>
        ELSE <<kept>>

RECURSIVE WeedLoop(_, _, _)
WeedLoop(w, trs, n) ==
    IF n = 0 THEN <<>> ELSE WeedLoop(w, trs, n - 1) \o Weed(w, trs, n)

\* Pile._process_chopped: sort, degap, filter, and stamp the window on what
\* is left.
ProcessChopped(w) ==
    LET weeded == WeedLoop(w, Sorted(w), Len(Sorted(w)))
    IN  [i \in 1..Len(weeded) |->
            [id |-> weeded[i].id, tmin |-> weeded[i].tmin, tmax |-> weeded[i].tmax,
             deltat |-> weeded[i].deltat, src |-> weeded[i].src,
             extended |-> weeded[i].extended, wmin |-> w.wmin, wmax |-> w.wmax]]

\* The lists of chopped traces: any one trace, or any two of the smallest
\* sample interval.
ChoppedLists ==
    {<<>>} \cup {<<tr>> : tr \in WeedTraces}
    \cup {<<a, b>> : a \in {tr \in WeedTraces : tr.deltat = 1},
                     b \in {tr \in WeedTraces : tr.deltat = 1}}

InitWeed ==
    /\ InitDisk
    /\ node = [f \in Files |-> TracesFileInit(NoParent, disk[f], disk[f].mtime)]
    /\ subpiles = <<>>
    /\ pile = Update(EmptyGroup, <<>>, TRUE)
    /\ open_files = <<>>
    /\ chop = Idle
    /\ raised = NoError
    /\ last = NoLast
    /\ trail = <<NoOp, NoOp>>
    /\ InitQuiet
    /\ \E chopped \in ChoppedLists, degap \in BOOLEAN, want_incomplete \in BOOLEAN,
          tpad \in 0..MaxPad :
          wd = [pc |-> "called", chopped |-> chopped, degap |-> degap,
                want_incomplete |-> want_incomplete,
                wmin |-> 1, wmax |-> WeedEnd - 1, tpad |-> tpad, out |-> <<>>]

CallProcessChopped ==
    /\ wd.pc = "called"
    /\ wd' = [wd EXCEPT !.pc = "returned", !.out = ProcessChopped(wd)]
    /\ UNCHANGED <<disk, node, pileVars, chop, raised, last, trail, other, xVars, earVars>>

NextWeed == CallProcessChopped

SpecWeed == InitWeed /\ [][NextWeed]_vars

(***************************************************************************)
(* Claims on _process_chopped, under SpecWeed                              *)
(***************************************************************************)
Returned == wd.pc = "returned"

Pmin == wd.wmin - wd.tpad
Pmax == wd.wmax + wd.tpad

\* The trace matches the padded window within half a sample at both ends.
Matches(tr) ==
    /\ 2 * Abs(tr.tmin - Pmin) <= tr.deltat
    /\ 2 * Abs(tr.tmax + tr.deltat - Pmax) <= tr.deltat

SameExtent(o, tr) ==
    o.id = tr.id /\ o.tmin = tr.tmin /\ o.tmax = tr.tmax /\ o.deltat = tr.deltat

KeptFrom(i) == \E j \in 1..Len(wd.out) : wd.out[j].src = i

\* C8: with want_incomplete false every trace that is yielded matches the
\* padded window within half a sample at its start and at its end
\* (tmax + deltat), an extension counted; a trace is extended only with degap
\* enabled, a trace that is not extended is yielded as it was, and every
\* trace that neither matches nor is extended is dropped.
C8_KeptTracesMatchWindow ==
    (Returned /\ ~wd.want_incomplete) =>
        /\ \A j \in 1..Len(wd.out) :
              /\ Matches(wd.out[j])
              /\ wd.out[j].extended => wd.degap
              /\ ~wd.out[j].extended => SameExtent(wd.out[j], Sorted(wd)[wd.out[j].src])
        /\ \A i \in 1..Len(Sorted(wd)) :
              (~Matches(Sorted(wd)[i]) /\ ~wd.degap) => ~KeptFrom(i)

C8_Witness ==
    /\ Returned /\ ~wd.want_incomplete /\ wd.degap
    /\ Len(wd.out) = 1 /\ wd.out[1].extended
    /\ Len(Sorted(wd)) = 2
    /\ wd.tpad > 0

\* The trace lies inside the padded window and is short of it at some edge.
ShortAtSomeEdge(tr) ==
    /\ Emin(wd, tr) >= 0 /\ Emax(wd, tr) <= 0
    /\ ~Matches(tr)

\* C9: with degap enabled and want_incomplete false, a trace inside the
\* padded window that is short of it, at one edge or at both, by no more than
\* 5 samples is kept, extended to the window; one that is short by more than
\* 5 samples at an edge is dropped.
C9_ShortTracesExtended ==
    (Returned /\ wd.degap /\ ~wd.want_incomplete) =>
        \A i \in 1..Len(Sorted(wd)) :
            LET tr == Sorted(wd)[i] IN
            ShortAtSomeEdge(tr) =>
                IF /\ Emin(wd, tr) <= MaxGapSamples * tr.deltat
                   /\ 0 - Emax(wd, tr) <= MaxGapSamples * tr.deltat
                THEN KeptFrom(i)
                ELSE ~KeptFrom(i)

(***************************************************************************)
(* SpecTwo: two chopper generators over one Pile, their next-calls         *)
(* interleaved by the caller.  chop is the generator the caller drives,    *)
(* other the one that waits.                                               *)
(***************************************************************************)
\* The generator is suspended at a yield and may be resumed.
Live(c) == c.pc = "yielded"

\* The arguments of the interleaved choppers: data is loaded, the range is
\* the default one, without pad.
TwoArgs == {a \in ChopArgs : a.load_data /\ a.tmin = None /\ a.tpad = 0}

\* The caller turns from one generator to the other; a generator that has
\* ended is let go of first.
Switch ==
    /\ chop.pc \in {"idle", "yielded"}
    /\ other.pc \in {"idle", "yielded"}
    /\ chop # other
    /\ chop' = other
    /\ other' = chop
    /\ UNCHANGED <<disk, node, pileVars, raised, last, trail, wd, xVars, earVars>>

\* A chopper is started under an accessor id that no live generator uses.
ChopperStartApart(a) ==
    /\ Live(other) => other.accessor_id # a.accessor_id
    /\ ChopperStart(a)

NextTwo ==
    \/ \E a \in TwoArgs : ChopperStartApart(a)
    \/ ChopperNext
    \/ ChopperDiscard
    \/ Switch

\* Every file is in the Pile, once.
InitTwo == InitChop /\ TotalEntries = NFiles /\ \A f \in Files : Contained(f)

SpecTwo == InitTwo /\ [][NextTwo]_vars

(***************************************************************************)
(* SpecShare: two choppers under any accessor ids, the same id included,   *)
(* suspended, resumed and abandoned in any order, while files are          *)
(* rewritten and Pile.reload_modified is called.                           *)
(***************************************************************************)
\* The file is written anew, with the traces it had or with none.
Rewrite(f) ==
    /\ SumMtime(Files) < MaxMods
    /\ \E c \in {disk[f].traces, <<>>} :
          disk' = [disk EXCEPT ![f] = [mtime |-> disk[f].mtime + 1, traces |-> c]]
    /\ last' = NoLast
    /\ UNCHANGED <<node, pileVars, otherVars, earVars, raised, trail>>

\* The generator as the interpreter keeps it: its arguments and locals,
\* without what was noted of its past.
Locals(c) ==
    IF c.pc = "raised" THEN [pc |-> "raised"]
    ELSE [pc |-> c.pc, tmin |-> c.tmin, tmax |-> c.tmax, tinc |-> c.tinc,
          tpad |-> c.tpad, keep_current_files_open |-> c.keep_current_files_open,
          accessor_id |-> c.accessor_id, load_data |-> c.load_data,
          iwin |-> c.iwin, used |-> c.used]

ShareStart(a) ==
    /\ chop.pc = "idle"
    /\ \E st \in {ChopperBegin(a)} :
          /\ node' = st.node
          /\ open_files' = st.open_files
          /\ chop' = Locals(st.chop)
          /\ raised' = st.raised
    /\ UNCHANGED <<disk, subpiles, pile, last, trail, wd, other, xVars, earVars>>

ShareNext ==
    /\ chop.pc = "yielded"
    /\ \E st \in {ChopperResume(chop @@ [open |-> {}, windows |-> <<>>])} :
          /\ node' = st.node
          /\ open_files' = st.open_files
          /\ chop' = Locals(st.chop)
          /\ raised' = st.raised
    /\ UNCHANGED <<disk, subpiles, pile, last, trail, wd, other, xVars, earVars>>

NextShare ==
    \/ \E a \in TwoArgs : ShareStart(a)
    \/ ShareNext
    \/ ChopperDiscard
    \/ Switch
    \/ \E f \in Files : Rewrite(f)
    \/ PileReloadModified

SpecShare == InitTwo /\ [][NextShare]_vars

\* The accessor ids whose open set holds f.
Holders(f) == {acc \in Accessors : f \in OpenSet(open_files, acc)}

\* C28: the data_use_count of every TracesFile is the number of accessor ids
\* whose open set holds it, whatever the order of the steps of choppers
\* (under different ids or one, keeping files open or not, run to the end or
\* abandoned) and of the calls of reload_modified.
C28_CountIsHolders ==
    \A f \in Files : Count(f) = Cardinality(Holders(f))

\* Two suspended choppers share one accessor id; a file is held under both
\* ids, and a file has been rewritten and reloaded while it was held.
C28_Witness ==
    /\ Live(chop) /\ Live(other)
    /\ chop.accessor_id = other.accessor_id
    /\ \E f \in Files : Cardinality(Holders(f)) = 2
    /\ \E f \in Files : disk[f].mtime > 0 /\ node[f].mtime = disk[f].mtime
                        /\ Holders(f) # {}

(***************************************************************************)
(* Claims on interleaved choppers, under SpecTwo                           *)
(***************************************************************************)
\* The step changes the open set of accessor acc.
TouchesOpenSet(acc) == OpenSet(open_files', acc) # OpenSet(open_files, acc)

\* A step changes the open set of an accessor only if it is a step of the
\* chopper running under that accessor id.
OwnOpenSetOnly ==
    \A acc \in Accessors :
        TouchesOpenSet(acc) =>
            /\ chop'.pc \in {"yielded", "done"}
            /\ chop'.accessor_id = acc
            /\ other' = other

\* Whatever is in the open set of a suspended generator has its data loaded.
HeldDataStays(c) ==
    Live(c) => \A f \in OpenSet(open_files, c.accessor_id) :
                   node[f].data_loaded /\ Count(f) >= 1

\* C11: with two choppers under distinct accessor ids, their next-calls
\* interleaved in any way, the open set of an accessor is changed only by its
\* own chopper, and no file is unloaded while it is in the open set of the
\* other accessor.
C11_AccessorsDoNotInterfere ==
    /\ [](HeldDataStays(chop) /\ HeldDataStays(other))
    /\ [][OwnOpenSetOnly]_vars

\* One chopper has ended and released a file that the other, suspended,
\* still holds.
C11_Witness ==
    /\ chop.pc = "done" /\ ~chop.early /\ ~chop.keep_current_files_open
    /\ Live(other)
    /\ \E f \in other.open :
          /\ Count(f) = 1
          /\ \E i \in 1..Len(chop.windows) :
                f \in UsedFiles(node, subpiles, chop.windows[i].wmin - chop.tpad,
                                chop.windows[i].wmax + chop.tpad, chop.load_data)

(***************************************************************************)
(* SpecAdd: a Pile that only grows.  Files are rewritten on disk, scanned  *)
(* by the loader, and added with add_files and add_file.                   *)
(***************************************************************************)
NextAdd ==
    \/ \E f \in Files : Modify(f)
    \/ \E f \in Files : Scan(f)
    \/ \E fs \in FileSeqs : PileAddFiles(fs)
    \/ \E f \in Files : PileAddFile(f)

SpecAdd == Init /\ [][NextAdd]_vars

AfterAdd == last.op \in {"add_files", "add_file"} /\ raised = NoError

\* C12: after add_files (or add_file) has returned, the span and identity
\* sets of every SubPile and of the Pile are the min / max / union over all
\* files added so far, as a full rebuild would give them, for any sequence of
\* additions without removals.
C12_GrowIsExact ==
    AfterAdd =>
        /\ IndexExact(pile, PileFiles)
        /\ \A k \in DOMAIN subpiles : IndexExact(subpiles[k].idx, FilesOf(k))

\* Start times of that many months are told apart by their keys.
KeyMonths == 13

\* The calendar month a time lies in, counted from the epoch, and the
\* (UTC year, UTC month) of that month.
MonthOf(t) == t \div MonthLen

YearMonth(m) == <<EpochYear + (m \div 12), (m % 12) + 1>>

\* C21: every file that add_files / add_file has put into the Pile stands in
\* the SubPile whose key is the (UTC year, UTC month) of the file's tmin;
\* SubPiles are made on first use, one per key, so every SubPile holds a
\* file, files of one month share a SubPile, and start times in different
\* months have different keys.
C21_PlacedByMonth ==
    /\ \A k \in DOMAIN subpiles :
          /\ FilesOf(k) # {}
          /\ \A f \in FilesOf(k) : k = YearMonth(MonthOf(node[f].idx.tmin))
    /\ \A f, g \in PileFiles :
          MonthOf(node[f].idx.tmin) = MonthOf(node[g].idx.tmin)
             <=> \E k \in DOMAIN subpiles : {f, g} \subseteq FilesOf(k)
    /\ \A t, u \in 0..(KeyMonths * MonthLen) :
          MonthOf(t) # MonthOf(u)
             => DispatchKey([idx |-> [tmin |-> t]]) # DispatchKey([idx |-> [tmin |-> u]])

\* add_files has put two files of different months into the Pile.
C21_Witness ==
    /\ AfterAdd /\ last.op = "add_files"
    /\ Cardinality(DOMAIN subpiles) = 2
    /\ \E f, g \in PileFiles : MonthOf(node[f].idx.tmin) # MonthOf(node[g].idx.tmin)

(***************************************************************************)
(* SpecEars: objects subscribe to a Pile with add_listener, some are       *)
(* destroyed, and the Pile is changed and reloaded.  The Pile operations   *)
(* are those of Spec, called on one file.                                  *)
(***************************************************************************)
EarSeqs == UNION {[1..n -> {TheFile}] : n \in 0..MaxBatch}

\* Pile.add_listener(obj): a weak reference to the object is appended.
AddListener(l) ==
    /\ obj[l].alive
    /\ Len(listeners) < NListeners
    /\ listeners' = Append(listeners, l)
    /\ heard' = Silence
    /\ last' = NoLast
    /\ raised' = NoError
    /\ UNCHANGED <<disk, node, pileVars, otherVars, obj, trail>>

\* The last strong reference to the object goes away: its weak references
\* now return None.
Destroy(l) ==
    /\ obj[l].alive
    /\ obj' = [obj EXCEPT ![l].alive = FALSE]
    /\ heard' = Silence
    /\ last' = NoLast
    /\ raised' = NoError
    /\ UNCHANGED <<disk, node, pileVars, otherVars, listeners, trail>>

\* The file is written again with the content it had: only its modification
\* time changes.
Touch(f) ==
    /\ SumMtime(Files) < MaxMods
    /\ disk' = [disk EXCEPT ![f].mtime = @ + 1]
    /\ heard' = Silence
    /\ last' = NoLast
    /\ raised' = NoError
    /\ UNCHANGED <<node, pileVars, otherVars, listeners, obj, trail>>

\* The listeners are objects of any class: their truth value is what their
\* class makes it.
InitEars ==
    /\ InitDisk
    /\ node = [f \in Files |-> TracesFileInit(NoParent, disk[f], disk[f].mtime)]
    /\ subpiles = <<>>
    /\ pile = Update(EmptyGroup, <<>>, TRUE)
    /\ open_files = <<>>
    /\ chop = Idle
    /\ raised = NoError
    /\ last = NoLast
    /\ trail = <<NoOp, NoOp>>
    /\ wd = NoWeed
    /\ other = Idle
    /\ listeners = <<>>
    /\ \E truth \in [Listeners -> BOOLEAN] :
          obj = [l \in Listeners |-> [alive |-> TRUE, truth |-> truth[l]]]
    /\ heard = Silence
    /\ store = NoStore
    /\ cache = NoCache
    /\ ld = NoLoader

NextEars ==
    \/ \E l \in Listeners : AddListener(l)
    \/ \E l \in Listeners : Destroy(l)
    \/ Touch(TheFile)
    \/ \E fs \in EarSeqs : PileAddFiles(fs)
    \/ PileAddFile(TheFile)
    \/ PileRemoveFile(TheFile)
    \/ \E fs \in EarSeqs : PileRemoveFiles(fs)
    \/ PileReloadModified

SpecEars == InitEars /\ [][NextEars]_vars

EventOf(op) ==
    CASE op \in {"add_files", "add_file"} -> "add"
      [] op \in {"remove_file", "remove_files"} -> "remove"
      [] OTHER -> "modified"

\* The last operation was a call that has to tell the listeners.
Telling ==
    /\ raised = NoError
    /\ \/ last.op \in {"add_files", "add_file", "remove_file", "remove_files"}
       \/ last.op = "reload_modified" /\ last.result

\* C13: each add_files / add_file, remove_file / remove_files and each
\* reload_modified that found a change delivers exactly one event ('add',
\* 'remove', 'modified') to every subscribed listener that is alive, with the
\* index of the Pile already as the call leaves it; destroyed listeners get
\* nothing, and a reload_modified that found no change delivers nothing.
C13_OneEventPerListener ==
    \A l \in Listeners :
        IF Telling /\ InList(listeners, l) /\ obj[l].alive
        THEN heard[l] = <<[what |-> EventOf(last.op), seen |-> pile]>>
        ELSE heard[l] = <<>>

(***************************************************************************)
(* TracesFileCache: one cache directory with one cache file (all source    *)
(* files are in one directory), used by the processes Procs, each with its *)
(* own TracesFileCache object.                                             *)
(*   store.files   the files of the cache directory, by name               *)
(*   store.exists  the source files for which os.path.isfile holds         *)
(*   store.did     history: the call that returned last, and its result    *)
(*   cache[p]      self.dircaches (have, dircache), self.modified, and the *)
(*                 position of p inside dump_modified / clean              *)
(***************************************************************************)
Procs == {"p1", "p2"}

\* Calls of get, put, dump_modified and clean that the processes make in all.
MaxCalls == 4

Target == "shard"

FsNames == {Target} \cup Procs

Absent == [present |-> FALSE, whole |-> FALSE, map |-> <<>>]

NoCall == [p |-> "none", op |-> "none", res |-> "none"]

\* One more call is made.
Called1(st) == [st EXCEPT !.calls = @ + 1]

Fresh ==
    [pc |-> "idle", have |-> FALSE, dircache |-> <<>>, modified |-> FALSE,
     job |-> <<>>, call |-> "none", phase |-> "none"]

\* A name for the temporary file that is the name of the cache file itself.
TmpNameInPlace(p) == Target

\* _dump_dircache, line 130: cachefilename + '.%i.tmp' % os.getpid()
TmpName(p) == p

\* A copy that keeps the parents.
CopyWithParents(m) == m

\* _dump_dircache, lines 125-128: copies of the entries, their parent None.
CopyWithoutParents(m) == [f \in DOMAIN m |-> [m[f] EXCEPT !.parent = NoParent]]

\* A load that keeps every entry.
WeedNothing(m, exists) == m

\* _load_dircache, lines 112-114: entries of files that no longer exist go.
WeedMissing(m, exists) == [f \in DOMAIN m \cap exists |-> m[f]]

\* pickle.load raises on a file that does not hold one whole pickle.
LoadRaises(st) == ~st.files[Target].whole

\* _get_dircache: c.have says whether cachepath is in self.dircaches.
GetDircacheRaises(c, st) ==
    ~c.have /\ st.files[Target].present /\ LoadRaises(st)

GetDircache(c, st) ==
    IF c.have THEN c
    ELSE IF st.files[Target].present
         THEN [c EXCEPT !.have = TRUE,
                        !.dircache = WeedMissing(st.files[Target].map, st.exists)]
         ELSE [c EXCEPT !.have = TRUE, !.dircache = <<>>]

Answer(p, op, res) == [p |-> p, op |-> op, res |-> res]

\* TracesFileCache.get(abspath)
CacheGet(p, f) ==
    /\ cache[p].pc = "idle"
    /\ store.calls < MaxCalls
    /\ IF GetDircacheRaises(cache[p], store)
       THEN /\ store' = [Called1(store) EXCEPT !.did = Answer(p, "get", "raised")]
            /\ UNCHANGED cache
       ELSE LET c == GetDircache(cache[p], store)
            IN  /\ cache' = [cache EXCEPT ![p] = c]
                /\ store' = [Called1(store) EXCEPT !.did =
                                Answer(p, "get", IF f \in DOMAIN c.dircache
                                                   THEN "found" ELSE "None")]
    /\ UNCHANGED <<disk, node, pileVars, chop, wd, other, ld, earVars, raised, last, trail>>

\* TracesFileCache.put(abspath, tfile), with the TracesFile the loader has
\* just made of the file.
CachePut(p, f) ==
    /\ cache[p].pc = "idle"
    /\ store.calls < MaxCalls
    /\ f \in store.exists
    /\ IF GetDircacheRaises(cache[p], store)
       THEN /\ store' = [Called1(store) EXCEPT !.did = Answer(p, "put", "raised")]
            /\ UNCHANGED cache
       ELSE LET c == GetDircache(cache[p], store)
                tfile == TracesFileInit(NoParent, disk[f], disk[f].mtime)
            IN  /\ cache' = [cache EXCEPT ![p] =
                                [c EXCEPT !.modified = TRUE,
                                          !.dircache = [g \in DOMAIN c.dircache \cup {f} |->
                                                           IF g = f THEN tfile ELSE c.dircache[g]]]]
                /\ store' = [Called1(store) EXCEPT !.did = Answer(p, "put", "None")]
    /\ UNCHANGED <<disk, node, pileVars, chop, wd, other, ld, earVars, raised, last, trail>>

\* The cached TracesFile is added to a Pile: SubPile.add_file sets its parent.
Adopt(p, f) ==
    /\ cache[p].pc = "idle"
    /\ f \in DOMAIN cache[p].dircache
    /\ cache[p].dircache[f].parent = NoParent
    /\ ~DispatchKeyRaises(cache[p].dircache[f])
    /\ cache' = [cache EXCEPT ![p].dircache[f].parent = DispatchKey(cache[p].dircache[f])]
    /\ store' = [store EXCEPT !.did = NoCall]
    /\ UNCHANGED <<disk, node, pileVars, chop, wd, other, ld, earVars, raised, last, trail>>

\* A source file is deleted.
Delete(f) ==
    /\ f \in store.exists
    /\ store' = [store EXCEPT !.exists = @ \ {f}, !.did = NoCall]
    /\ UNCHANGED <<disk, node, pileVars, chop, wd, other, cache, ld, earVars, raised, last, trail>>

cacheFrame == <<disk, node, pileVars, chop, wd, other, ld, earVars, raised, last, trail>>

\* The call of p returns (res = "None") or raises (res = "raised").
Leave(c, p, st, res) ==
    /\ cache' = [cache EXCEPT ![p] = [c EXCEPT !.pc = "idle", !.job = <<>>,
                                               !.call = "none", !.phase = "none"]]
    /\ store' = [st EXCEPT !.did = Answer(p, c.call, res)]

Goto(c, p, st, pc) ==
    /\ cache' = [cache EXCEPT ![p] = [c EXCEPT !.pc = pc]]
    /\ store' = [st EXCEPT !.did = NoCall]

\* _dump_dircache has returned: dump_modified, line 73, empties
\* self.modified; clean, line 78, goes on to the listing; the loop of
\* clean over the one cache file ends.
AfterDump(c, p, st) ==
    IF c.phase = "flush"
    THEN IF c.call = "clean"
         THEN Goto([c EXCEPT !.modified = FALSE, !.job = <<>>], p, st, "c_list")
         ELSE Leave([c EXCEPT !.modified = FALSE], p, st, "None")
    ELSE Leave(c, p, st, "None")

\* TracesFileCache.dump_modified is called.
DumpModified(p) ==
    /\ cache[p].pc = "idle"
    /\ store.calls < MaxCalls
    /\ LET c == [cache[p] EXCEPT !.call = "dump_modified", !.phase = "flush"]
       IN  IF c.modified
           THEN Goto([c EXCEPT !.job = c.dircache], p, Called1(store), "d_begin")
           ELSE AfterDump(c, p, Called1(store))
    /\ UNCHANGED cacheFrame

\* TracesFileCache.clean is called.
Clean(p) ==
    /\ cache[p].pc = "idle"
    /\ store.calls < MaxCalls
    /\ LET c == [cache[p] EXCEPT !.call = "clean", !.phase = "flush"]
       IN  IF c.modified
           THEN Goto([c EXCEPT !.job = c.dircache], p, Called1(store), "d_begin")
           ELSE AfterDump(c, p, Called1(store))
    /\ UNCHANGED cacheFrame

\* _dump_dircache, lines 119-131: an empty cache asks os.path.exists;
\* another one opens the temporary file for writing.
DumpBegin(p) ==
    /\ cache[p].pc = "d_begin"
    /\ LET c == cache[p]
       IN  IF DOMAIN c.job = {}
           THEN IF store.files[Target].present
                THEN Goto(c, p, store, "d_remove")
                ELSE AfterDump(c, p, store)
           ELSE Goto(c, p,
                     [store EXCEPT !.files[TmpName(p)] =
                         [present |-> TRUE, whole |-> FALSE, map |-> <<>>]],
                     "d_write")
    /\ UNCHANGED cacheFrame

\* _dump_dircache, line 121: os.remove; OSError if the file has gone.
DumpRemove(p) ==
    /\ cache[p].pc = "d_remove"
    /\ IF store.files[Target].present
       THEN AfterDump(cache[p], p, [store EXCEPT !.files[Target] = Absent])
       ELSE Leave(cache[p], p, store, "raised")
    /\ UNCHANGED cacheFrame

\* _dump_dircache, lines 132-133: pickle.dump and close.
DumpWrite(p) ==
    /\ cache[p].pc = "d_write"
    /\ Goto(cache[p], p,
            [store EXCEPT !.files[TmpName(p)] =
                [present |-> TRUE, whole |-> TRUE,
                 map |-> CopyWithoutParents(cache[p].job)]],
            "d_rename")
    /\ UNCHANGED cacheFrame

\* _dump_dircache, line 134: os.rename(tmpfn, cachefilename).
DumpRename(p) ==
    /\ cache[p].pc = "d_rename"
    /\ AfterDump(cache[p], p,
                 IF TmpName(p) = Target THEN store
                 ELSE [store EXCEPT !.files[Target] = store.files[TmpName(p)],
                                    !.files[TmpName(p)] = Absent])
    /\ UNCHANGED cacheFrame

\* clean, lines 80-82: os.listdir; the temporary files have no integer name.
CleanList(p) ==
    /\ cache[p].pc = "c_list"
    /\ IF store.files[Target].present
       THEN Goto([cache[p] EXCEPT !.phase = "weed"], p, store, "c_load")
       ELSE Leave(cache[p], p, store, "None")
    /\ UNCHANGED cacheFrame

\* clean, lines 83-84: _load_dircache, then _dump_dircache of what it gave.
CleanLoad(p) ==
    /\ cache[p].pc = "c_load"
    /\ IF ~store.files[Target].present \/ LoadRaises(store)
       THEN Leave(cache[p], p, store, "raised")
       ELSE Goto([cache[p] EXCEPT !.job = WeedMissing(store.files[Target].map, store.exists)],
                 p, store, "d_begin")
    /\ UNCHANGED cacheFrame

\* The process ends, wherever it is, and a new one takes its place.
Crash(p) ==
    /\ cache[p] # Fresh
    /\ cache' = [cache EXCEPT ![p] = Fresh]
    /\ store' = [store EXCEPT !.did = NoCall]
    /\ UNCHANGED cacheFrame

InitCache ==
    /\ InitDisk
    /\ node = [f \in Files |-> TracesFileInit(NoParent, disk[f], disk[f].mtime)]
    /\ subpiles = <<>> /\ pile = EmptyGroup /\ open_files = <<>>
    /\ chop = Idle /\ other = Idle /\ wd = NoWeed
    /\ listeners = <<>> /\ obj = [l \in Listeners |-> [alive |-> TRUE, truth |-> TRUE]]
    /\ heard = Silence /\ raised = NoError /\ last = NoLast /\ trail = <<>>
    /\ ld = NoLoader
    /\ store = [files |-> [n \in FsNames |-> Absent], exists |-> Files, did |-> NoCall,
                calls |-> 0]
    /\ cache = [p \in Procs |-> Fresh]

NextCache ==
    \/ \E p \in Procs, f \in Files : CacheGet(p, f)
    \/ \E p \in Procs, f \in Files : CachePut(p, f)
    \/ \E p \in Procs, f \in Files : Adopt(p, f)
    \/ \E f \in Files : Delete(f)
    \/ \E p \in Procs : DumpModified(p)
    \/ \E p \in Procs : Clean(p)
    \/ \E p \in Procs : DumpBegin(p)
    \/ \E p \in Procs : DumpRemove(p)
    \/ \E p \in Procs : DumpWrite(p)
    \/ \E p \in Procs : DumpRename(p)
    \/ \E p \in Procs : CleanList(p)
    \/ \E p \in Procs : CleanLoad(p)
    \/ \E p \in Procs : Crash(p)

SpecCache == InitCache /\ [][NextCache]_vars

\* The cache file holds one whole pickled mapping.
WholeMapping(content) == content.present => content.whole

\* C14: at every point of dump_modified -- between any two of its steps,
\* after a process has ended in the middle of it, and while two processes
\* flush the same cache file -- the cache file is absent or holds one whole
\* mapping; and when dump_modified has returned, nothing is marked modified.
C14_FlushIsAtomic ==
    /\ WholeMapping(store.files[Target])
    /\ (store.did.op = "dump_modified" /\ store.did.res = "None")
          => ~cache[store.did.p].modified

\* Both processes are in the middle of a flush of the cache file, which an
\* earlier flush has written.
C14_Witness ==
    /\ cache["p1"].pc = "d_rename" /\ cache["p1"].call = "dump_modified"
    /\ cache["p2"].pc = "d_write"
    /\ store.files[Target].present
    /\ store.files["p1"].map # store.files[Target].map

\* What get(f) gives to the process whose TracesFileCache is c.
GetAnswer(c, st, f) ==
    IF GetDircacheRaises(c, st) THEN "raised"
    ELSE IF f \in DOMAIN GetDircache(c, st).dircache THEN "found" ELSE "None"

CleanReturned == store.did.op = "clean" /\ store.did.res = "None"

\* No entry of the cache file is of a source file that no longer exists,
\* and a cache file without entries is not there.
DiskIsClean ==
    /\ \A f \in Files \ store.exists : f \notin DOMAIN store.files[Target].map
    /\ store.files[Target].present => DOMAIN store.files[Target].map # {}

\* C15: when clean() has returned, get(path) gives None for every path whose
\* file no longer exists, the cache file holds no entry of such a path, and
\* a cache file left without entries has been deleted.
C15_CleanForgetsMissing ==
    CleanReturned =>
        /\ \A f \in Files \ store.exists :
              GetAnswer(cache[store.did.p], store, f) = "None"
        /\ DiskIsClean

\* get(f) of process p reads the cache file into memory in this step.
LoadsBy(p) ==
    /\ ~cache[p].have /\ cache'[p].have
    /\ store.files[Target].present
    /\ store'.did.p = p /\ store'.did.op = "get"

\* Process p takes a step of a flush in this step.
FlushesBy(p) == cache[p].pc # "idle" /\ cache'[p] # Fresh

\* C16: a cache file that was written and is then loaded gives exactly the
\* entries of the files that exist at the time of the load, each with the
\* identity sets, span and mtime of the TracesFile that was put, and with
\* parent None; and no step of a flush changes the mapping in memory, the
\* parents of its TracesFiles included.
C16_RoundTrip ==
    [][\A p \in Procs :
          /\ LoadsBy(p) =>
                /\ DOMAIN cache'[p].dircache =
                      DOMAIN store.files[Target].map \cap store.exists
                /\ \A f \in DOMAIN cache'[p].dircache :
                      cache'[p].dircache[f] =
                          TracesFileInit(NoParent, disk[f], disk[f].mtime)
          /\ FlushesBy(p) => cache'[p].dircache = cache[p].dircache]_vars

\* A process has loaded a cache file that another process wrote from a
\* mapping in which a TracesFile has a parent, and the cache file has an
\* entry of a deleted file.
C16_Witness ==
    \E p \in Procs, q \in Procs, f \in Files :
        /\ p # q
        /\ store.did = Answer(p, "get", "found")
        /\ ~cache[p].modified /\ ~cache[q].modified
        /\ DOMAIN cache[p].dircache = DOMAIN store.files[Target].map \cap store.exists
        /\ DOMAIN cache[p].dircache # DOMAIN store.files[Target].map
        /\ f \in DOMAIN cache[p].dircache /\ f \in DOMAIN cache[q].dircache
        /\ cache[q].dircache[f].parent # NoParent
        /\ cache[p].dircache[f].parent = NoParent

(***************************************************************************)
(* loader(filenames, fileformat, cache, filename_attributes): a generator, *)
(* run by process "p1" with its TracesFileCache (or with cache None).      *)
(*   store.bad      the files for which io.load raises FileLoadError       *)
(*   store.nomatch  the filenames which the attribute pattern does not     *)
(*                  match                                                  *)
(*   ld             the generator: its arguments, the index i of the next  *)
(*                  filename, failures, what it has yielded (out) and what *)
(*                  it has passed to logger.warn (log)                     *)
(***************************************************************************)
MaxNames == 3

Scanner == "p1"

NameSeqs == UNION {[1..n -> Files] : n \in 0..MaxNames}

\* A failure that ends the scan: no later file is looked at.
FailAndStop(l, f, error) ==
    [l EXCEPT !.i = Len(l.filenames) + 1, !.failures = Append(@, f),
              !.log = Append(@, [what |-> error, files |-> <<f>>])]

\* except-clause, lines 189-191: the file is noted and the error is logged.
Fail(l, f, error) ==
    [l EXCEPT !.i = @ + 1, !.failures = Append(@, f),
              !.log = Append(@, [what |-> error, files |-> <<f>>])]

\* else-clause, line 193
Yield(l, f, from) ==
    [l EXCEPT !.i = @ + 1, !.pc = "yielded",
              !.out = Append(@, [file |-> f, from |-> from])]

\* lines 198-199
WarnFailures(l) ==
    IF l.failures # <<>>
    THEN [l EXCEPT !.log = Append(@, [what |-> "batch", files |-> l.failures])]
    ELSE l

\* A test that takes every entry of the cache, whatever its mtime.
NeedsReadWhateverMtime(l, c, f) ==
    ~(l.cache /\ f \in DOMAIN c.dircache) \/ l.regex

\* line 185: not tfile or tfile.mtime != mtime or substitutions, with tfile
\* what cache.get gave, or None without a cache.
NeedsRead(l, c, f) ==
    LET got == l.cache /\ f \in DOMAIN c.dircache
    IN  ~got \/ c.dircache[f].mtime # disk[f].mtime \/ l.regex

\* The body of the generator from its position to the next yield, to the end
\* of the loop, or to an exception that the try statement does not catch.
\* c is the TracesFileCache of the scanning process.
RECURSIVE LoaderLoop(_, _, _)
LoaderLoop(l, c, st) ==
    IF l.i > Len(l.filenames)
    THEN [l |-> [WarnFailures(l) EXCEPT !.pc = "flush"], c |-> c]
    ELSE LET f == l.filenames[l.i]
         IN  IF l.regex /\ f \in st.nomatch
             THEN LoaderLoop(Fail(l, f, "FilenameAttributeError"), c, st)
             ELSE IF f \notin st.exists
             THEN LoaderLoop(Fail(l, f, "OSError"), c, st)
             ELSE IF l.cache /\ GetDircacheRaises(c, st)
             THEN [l |-> [l EXCEPT !.pc = "raised"], c |-> c]
             ELSE LET c1 == IF l.cache THEN GetDircache(c, st) ELSE c
                  IN  IF NeedsRead(l, c1, f)
                      THEN IF f \in st.bad
                           THEN LoaderLoop(Fail(l, f, "FileLoadError"), c1, st)
                           ELSE [l |-> Yield(l, f, "source"),
                                 c |-> IF l.cache /\ ~l.regex
                                       THEN [c1 EXCEPT !.modified = TRUE,
                                                !.dircache =
                                                   [g \in DOMAIN c1.dircache \cup {f} |->
                                                      IF g = f
                                                      THEN TracesFileInit(NoParent, disk[f], disk[f].mtime)
                                                      ELSE c1.dircache[g]]]
                                       ELSE c1]
                      ELSE [l |-> Yield(l, f, "cache"), c |-> c1]

loaderFrame == <<disk, node, pileVars, chop, wd, other, earVars, raised, last, trail>>

\* loader(...) is called: nothing of its body runs before the first next().
LoaderStart(filenames, regex, usecache) ==
    /\ ld.pc = "none"
    /\ cache[Scanner].pc = "idle"
    /\ ld' = [pc |-> "created", filenames |-> filenames, regex |-> regex,
              cache |-> usecache, i |-> 1, failures |-> <<>>, out |-> <<>>,
              log |-> <<>>]
    /\ UNCHANGED <<store, cache>>
    /\ UNCHANGED loaderFrame

\* next() on the generator.  At the end of the loop the generator goes on to
\* cache.dump_modified(), whose steps follow.
LoaderNext ==
    /\ ld.pc \in {"created", "yielded"}
    /\ IF ld.pc = "created" /\ ld.filenames = <<>>
       THEN /\ ld' = [ld EXCEPT !.pc = "done",
                                !.log = Append(@, [what |-> "No files to load from",
                                                   files |-> <<>>])]
            /\ UNCHANGED <<store, cache>>
       ELSE \E r \in {LoaderLoop(ld, cache[Scanner], store)} :
               IF r.l.pc = "flush" /\ ld.cache
               THEN LET c == [r.c EXCEPT !.call = "dump_modified", !.phase = "flush"]
                    IN  /\ ld' = r.l
                        /\ IF c.modified
                           THEN Goto([c EXCEPT !.job = c.dircache], Scanner, store, "d_begin")
                           ELSE AfterDump(c, Scanner, store)
               ELSE /\ ld' = [r.l EXCEPT !.pc = IF @ = "flush" THEN "done" ELSE @]
                    /\ cache' = [cache EXCEPT ![Scanner] = r.c]
                    /\ UNCHANGED store
    /\ UNCHANGED loaderFrame

\* cache.dump_modified() has returned: the generator ends.
LoaderReturn ==
    /\ ld.pc = "flush"
    /\ cache[Scanner].pc = "idle"
    /\ ld' = [ld EXCEPT !.pc = "done"]
    /\ UNCHANGED <<store, cache>>
    /\ UNCHANGED loaderFrame

\* What the cache file may hold when the scan begins: nothing, something
\* that is no pickle, or a mapping with entries whose mtime is that of the
\* file (0) or an older one.
Shards ==
    {Absent, [present |-> TRUE, whole |-> FALSE, map |-> <<>>]}
    \cup {[present |-> TRUE, whole |-> TRUE, map |-> m] :
            m \in UNION {[S -> {0, 1}] : S \in (SUBSET Files) \ {{}}}}

\* The entry of f with mtime m becomes the TracesFile that was pickled.
Pickled(content) ==
    [content EXCEPT !.map = [f \in DOMAIN content.map |->
                                TracesFileInit(NoParent, disk[f], content.map[f])]]

InitLoad ==
    /\ InitDisk
    /\ node = [f \in Files |-> TracesFileInit(NoParent, disk[f], disk[f].mtime)]
    /\ subpiles = <<>> /\ pile = EmptyGroup /\ open_files = <<>>
    /\ chop = Idle /\ other = Idle /\ wd = NoWeed
    /\ listeners = <<>> /\ obj = [l \in Listeners |-> [alive |-> TRUE, truth |-> TRUE]]
    /\ heard = Silence /\ raised = NoError /\ last = NoLast /\ trail = <<>>
    /\ ld = NoLoader
    /\ cache = [p \in Procs |-> Fresh]
    /\ \E sh \in Shards, ex \in SUBSET Files, bad \in SUBSET Files, nm \in SUBSET Files :
          \* a file with an entry of its present mtime has been read before
          /\ \A f \in bad : f \in DOMAIN sh.map => sh.map[f] # disk[f].mtime
          /\ store = [files |-> [n \in FsNames |-> IF n = Target THEN Pickled(sh) ELSE Absent],
                      exists |-> ex, did |-> NoCall, calls |-> 0,
                      bad |-> bad, nomatch |-> nm]

\* The scanning process looks a file up itself before it starts the scan.
GetBeforeScan(f) == ld.pc = "none" /\ CacheGet(Scanner, f)

NextLoad ==
    \/ \E fs \in NameSeqs, re \in BOOLEAN, uc \in BOOLEAN : LoaderStart(fs, re, uc)
    \/ LoaderNext
    \/ LoaderReturn
    \/ \E f \in Files : GetBeforeScan(f)
    \/ DumpBegin(Scanner)
    \/ DumpWrite(Scanner)
    \/ DumpRename(Scanner)

SpecLoad == InitLoad /\ [][NextLoad]_vars

\* The file is one that raises FilenameAttributeError, OSError or
\* io.FileLoadError in this scan.
Failing(f) ==
    \/ ld.regex /\ f \in store.nomatch
    \/ f \notin store.exists
    \/ f \in store.bad

Passing(f) == ~Failing(f)

IsBatch(e) == e.what = "batch"

OutFiles == [i \in 1..Len(ld.out) |-> ld.out[i].file]

IsPrefix(s, t) == Len(s) <= Len(t) /\ s = SubSeq(t, 1, Len(s))

\* C18: the loader yields the TracesFiles of exactly the files that do not
\* fail, in the order of the input list, going on after every failing file;
\* and it reports the failing files in one batch, once, after the last file
\* and not before (and not at all when no file failed).
C18_SkipAndContinue ==
    /\ ld.pc \in {"created", "yielded", "flush", "done"} =>
          IsPrefix(OutFiles, SelectSeq(ld.filenames, Passing))
    /\ ld.pc \in {"created", "yielded"} => SelectSeq(ld.log, IsBatch) = <<>>
    /\ (ld.pc \in {"flush", "done"} /\ ld.filenames # <<>>) =>
          /\ OutFiles = SelectSeq(ld.filenames, Passing)
          /\ SelectSeq(ld.log, IsBatch) =
                IF SelectSeq(ld.filenames, Failing) = <<>> THEN <<>>
                ELSE <<[what |-> "batch", files |-> SelectSeq(ld.filenames, Failing)]>>

\* A scan with a cache has ended in which a file failed, the next file was
\* yielded, and the file after that failed again.
C18_Witness ==
    /\ ld.pc = "done" /\ ld.cache
    /\ Len(ld.filenames) >= 3
    /\ Failing(ld.filenames[1])
    /\ Passing(ld.filenames[2])
    /\ Failing(ld.filenames[3])
    /\ Len(ld.failures) >= 2 /\ Len(ld.out) >= 1

\* The cache file is there and is not one whole pickled mapping.
CorruptShard == store.files[Target].present /\ ~store.files[Target].whole

\* C17: with a corrupt or unreadable cache file, get gives None for every
\* path and raises nothing, the loader raises nothing, and the scan yields
\* every file that does not fail, read from the source file.
C17_CorruptShardIsMiss ==
    CorruptShard =>
        /\ store.did.op = "get" => store.did.res = "None"
        /\ ld.pc # "raised"
        /\ (ld.pc \in {"flush", "done"} /\ ld.filenames # <<>>) =>
              /\ OutFiles = SelectSeq(ld.filenames, Passing)
              /\ \A i \in 1..Len(ld.out) : ld.out[i].from = "source"

\* The mapping of the scanning process: self.dircaches[cachepath] if it is
\* there, else what _get_dircache would load now.
Dircache == GetDircache(cache[Scanner], store).dircache

\* The cache holds an entry of f whose mtime is the mtime of f now.
CurrentEntry(m, f) == f \in DOMAIN m /\ m[f].mtime = disk[f].mtime

\* next() on the loader yields one more TracesFile in this step.
YieldsOne ==
    /\ ld.pc \in {"created", "yielded"}
    /\ ld'.pc = "yielded"
    /\ Len(ld'.out) = Len(ld.out) + 1

Yielded == ld'.out[Len(ld'.out)]

Selectors == [given : BOOLEAN, ids : SUBSET Ids] \ [given : {FALSE}, ids : (SUBSET Ids) \ {{}}]

Holds(sel, g) == ~sel.given \/ \E i \in sel.ids : Nslc(i) \in g.nslc_ids

\* Pile.chop, SubPile.chop, TracesFile.chop: the set used_files.
UsedFilesOf(nd, subs, tmin, tmax, sel, load_data) ==
    {f \in Files :
        /\ load_data
        /\ nd[f].traces # <<>>
        /\ IsRelevant(nd[f].idx, tmin, tmax) /\ Holds(sel, nd[f].idx)
        /\ \E k \in DOMAIN subs :
              /\ InList(subs[k].files, f)
              /\ IsRelevant(subs[k].idx, tmin, tmax) /\ Holds(sel, subs[k].idx)}

PileChop(tmin, tmax, sel, load_data) ==
    /\ last.op # "chop"
    /\ tmin <= tmax
    /\ \E used \in {UsedFilesOf(node, subpiles, tmin, tmax, sel, load_data)} :
          /\ node' = [f \in Files |->
                         IF f \in used THEN LoadData(node[f], disk[f], FALSE) ELSE node[f]]
          /\ last' = [op |-> "chop", result |-> FALSE, tmin |-> tmin, tmax |-> tmax,
                      sel |-> sel, load_data |-> load_data, used |-> used,
                      before |-> node]
    /\ raised' = NoError
    /\ heard' = Silence
    /\ UNCHANGED <<disk, pileVars, otherVars, listeners, obj, trail>>

\* The caller is done with what chop returned.
ChopForget ==
    /\ last.op = "chop"
    /\ last' = NoLast
    /\ UNCHANGED <<disk, node, pileVars, otherVars, earVars, raised, trail>>

NextCut ==
    \/ \E f \in Files : Modify(f)
    \/ PileReloadModified
    \/ \E tmin \in 0..(MaxTime + 1), tmax \in 0..(MaxTime + 1), sel \in Selectors,
          load_data \in BOOLEAN : PileChop(tmin, tmax, sel, load_data)
    \/ ChopForget

SpecCut == InitChop /\ [][NextCut]_vars

\* The SubPile that holds f.
BucketOf(f) == CHOOSE k \in DOMAIN subpiles : InList(subpiles[k].files, f)

\* C22: Pile.chop loads data from, and gives as used, only files whose span
\* overlaps the window, both ends included, and for which the group_selector
\* holds; a file with traces that only touches an end of the window is
\* among them (load_data asked for, and the selector holding for the file
\* and for its SubPile, to which it is applied as well); no other file is
\* changed, and no data_use_count is changed at all.
C22_ChopConsultsRelevantOnly ==
    last.op = "chop" =>
        /\ \A f \in last.used :
              /\ last.before[f].idx.tmin <= last.tmax
              /\ last.before[f].idx.tmax >= last.tmin
              /\ Holds(last.sel, last.before[f].idx)
              /\ node[f].data_loaded
        /\ \A f \in Files \ last.used : node[f] = last.before[f]
        /\ \A f \in Files : node[f].data_use_count = last.before[f].data_use_count
        /\ \A f \in PileFiles :
              (/\ last.load_data
               /\ last.before[f].traces # <<>>
               /\ \/ last.before[f].idx.tmax = last.tmin
                  \/ last.before[f].idx.tmin = last.tmax
               /\ Holds(last.sel, last.before[f].idx)
               /\ Holds(last.sel, subpiles[BucketOf(f)].idx))
                  => f \in last.used

\* A chop with a selector has used a file that only touches the start of the
\* window and has left another file of the Pile alone.
C22_Witness ==
    /\ last.op = "chop" /\ last.sel.given
    /\ \E f \in last.used, g \in PileFiles \ last.used :
          /\ last.before[f].idx.tmax = last.tmin
          /\ last.before[f].idx.tmin < last.tmin
          /\ ~last.before[f].data_loaded /\ node[f].data_loaded

(***************************************************************************)
(* SpecGroup: Pile.chopper_grouped(gather, ...).  chop is the chopper of   *)
(* the key at hand and other is the grouped generator around it: its       *)
(* arguments, the keys, the index ikey of the key at hand and, as history, *)
(* the passes that have ended.                                             *)
(***************************************************************************)
\* gather(tr): the caller groups by nslc id or by network.
Gathers == {"nslc_id", "network"}

Gather(gt, tr) == IF gt = "nslc_id" THEN tr.id ELSE Nslc(tr.id)[1]

\* The outer trace_selector is None, or it asks for traces of given ids.
TraceSelectors == Selectors

HoldsTrace(sel, tr) == ~sel.given \/ tr.id \in sel.ids

\* TracesFile.gather_keys, SubPile.gather_keys, Pile.gather_keys (as a set).
FileKeys(nd, gt, f) == {Gather(gt, nd[f].traces[i]) : i \in 1..Len(nd[f].traces)}

SubPileKeys(nd, subs, gt, k) ==
    UNION {FileKeys(nd, gt, subs[k].files[i]) : i \in 1..Len(subs[k].files)}

PileKeys(nd, subs, gt) == UNION {SubPileKeys(nd, subs, gt, k) : k \in DOMAIN subs}

\* sorted(keys)
RECURSIVE SortedSeq(_)
SortedSeq(S) ==
    IF S = {} THEN <<>>
    ELSE LET m == CHOOSE x \in S : \A y \in S : x <= y
         IN  <<m>> \o SortedSeq(S \ {m})

\* A trace selector that forgets the key.
TselOuterOnly(g, key, tr) == HoldsTrace(g.tsel, tr)

\* tsel, lines 891-893
Tsel(g, key, tr) == Gather(g.gather, tr) = key /\ HoldsTrace(g.tsel, tr)

\* gsel, lines 895-900, asked of a TracesFile, of a SubPile and of the Pile.
GselFile(g, key, nd, f) ==
    key \in FileKeys(nd, g.gather, f) /\ Holds(g.gsel, nd[f].idx)

GselSubPile(g, key, nd, subs, k) ==
    key \in SubPileKeys(nd, subs, g.gather, k) /\ Holds(g.gsel, subs[k].idx)

GselPile(g, key, nd, subs) ==
    key \in PileKeys(nd, subs, g.gather) /\ Holds(g.gsel, pile)

\* Pile.chop / SubPile.chop under gsel: the files whose chop is called.
Consulted(g, key, nd, subs, tmin, tmax) ==
    {f \in Files :
        /\ IsRelevant(nd[f].idx, tmin, tmax) /\ GselFile(g, key, nd, f)
        /\ \E k \in DOMAIN subs :
              /\ InList(subs[k].files, f)
              /\ IsRelevant(subs[k].idx, tmin, tmax)
              /\ GselSubPile(g, key, nd, subs, k)}

\* TracesFile.chop under tsel: the traces that are handed to tr.chop.
Needed(g, key, nd, f) ==
    {i \in 1..Len(nd[f].traces) : Tsel(g, key, nd[f].traces[i])}

RECURSIVE StartPass(_)
RECURSIVE PassStep(_)
RECURSIVE EndPass(_)

\* The pass of the key at hand has ended: the next key, or the end.
EndPass(st) ==
    LET pass == [key |-> st.g.keys[st.g.ikey], windows |-> st.c.windows,
                 early |-> st.c.early, tmin |-> st.c.tmin, tmax |-> st.c.tmax,
                 tinc |-> st.c.tinc]
        g1 == [st.g EXCEPT !.passes = Append(@, pass)]
    IN  IF g1.ikey = Len(g1.keys)
        THEN [st EXCEPT !.g = [g1 EXCEPT !.pc = "done"], !.c = Idle]
        ELSE StartPass([st EXCEPT !.g = [g1 EXCEPT !.ikey = @ + 1]])

\* One turn of the loop of chopper, with the selectors of the key at hand.
PassStep(st) ==
    LET c == st.c
        key == st.g.keys[st.g.ikey]
    IN  IF Exhausted(c)
        THEN EndPass([st EXCEPT !.nd = Finish(c, st.nd),
                                !.of = SetOpen(st.of, c.accessor_id, {}),
                                !.c = [c EXCEPT !.pc = "done", !.open = {}]])
        ELSE LET w == WindowBounds(c)
                 consulted == Consulted(st.g, key, st.nd, subpiles,
                                        w.wmin - c.tpad, w.wmax + c.tpad)
                 used == {f \in consulted : Needed(st.g, key, st.nd, f) # {}}
                 loaded == [f \in Files |->
                               IF f \in used THEN LoadData(st.nd[f], disk[f], FALSE)
                               ELSE st.nd[f]]
                 new == used \ c.open
             IN  [st EXCEPT
                    !.nd = [f \in Files |-> IF f \in new THEN UseData(loaded[f])
                                            ELSE loaded[f]],
                    !.of = SetOpen(st.of, c.accessor_id, c.open \cup used),
                    !.g = [st.g EXCEPT !.pc = "yielded"],
                    !.c = [c EXCEPT !.pc = "yielded", !.used = used,
                                    !.open = c.open \cup used,
                                    !.windows = Append(@, w),
                                    !.consulted = consulted,
                                    !.offered = UNION {{<<f, i>> : i \in Needed(st.g, key, st.nd, f)} :
                                                          f \in consulted}]]

\* chopper(*args, **kwargs) is called for the key at hand, lines 808-823.
StartPass(st) ==
    LET a == st.g.args
        key == st.g.keys[st.g.ikey]
        r == DefaultRange(pile, a)
        c == [pc |-> "start", args |-> a, tmin |-> r.tmin, tmax |-> r.tmax,
              tinc |-> DefaultInc(a, r), tpad |-> a.tpad,
              keep_current_files_open |-> a.keep_current_files_open,
              accessor_id |-> a.accessor_id, load_data |-> a.load_data,
              iwin |-> 0, used |-> {}, windows |-> <<>>,
              open |-> OpenSet(st.of, a.accessor_id), early |-> FALSE,
              consulted |-> {}, offered |-> {}]
    IN  IF ~(IsRelevant(pile, r.tmin - a.tpad, r.tmax + a.tpad)
             /\ GselPile(st.g, key, st.nd, subpiles))
        THEN EndPass([st EXCEPT !.c = [c EXCEPT !.pc = "done", !.early = TRUE]])
        ELSE PassStep([st EXCEPT !.c = c])

\* What the caller passes on to chopper: the range given or omitted.
GroupArgs ==
    {a \in ChopArgs : /\ a.tpad = 0 /\ a.load_data /\ ~a.keep_current_files_open
                      /\ a.accessor_id = "a1"
                      /\ a.tmin # None => (a.tmin = 0 /\ a.tmax = MaxTime + 1)}

groupFrame == <<disk, subpiles, pile, last, trail, wd, xVars, earVars>>

\* chopper_grouped(gather, ...) is called: nothing runs before the first
\* next().
GroupStart(gt, a, gsel, tsel) ==
    /\ other.pc = "idle"
    /\ other' = [pc |-> "created", gather |-> gt, args |-> a, gsel |-> gsel,
                 tsel |-> tsel, keys |-> <<>>, ikey |-> 0, passes |-> <<>>]
    /\ raised' = NoError
    /\ UNCHANGED <<node, open_files, chop>>
    /\ UNCHANGED groupFrame

\* next() on the grouped generator: up to the next yield of a chopper, or to
\* the end of the last pass.
GroupNext ==
    /\ other.pc \in {"created", "yielded"}
    /\ IF other.pc = "created"
       THEN LET keys == SortedSeq(PileKeys(node, subpiles, other.gather))
            IN  IF keys = <<>>
                THEN /\ other' = [other EXCEPT !.pc = "done"]
                     /\ UNCHANGED <<node, open_files, chop>>
                ELSE \E r \in {StartPass([g |-> [other EXCEPT !.keys = keys, !.ikey = 1],
                                         c |-> chop, nd |-> node, of |-> open_files])} :
                        /\ other' = r.g /\ chop' = r.c
                        /\ node' = r.nd /\ open_files' = r.of
       ELSE LET unused == chop.open \ chop.used
                dropped == [f \in Files |->
                               IF f \in unused THEN DropData(node[f]) ELSE node[f]]
                c == [chop EXCEPT !.open = chop.used, !.iwin = @ + 1]
            IN  \E r \in {PassStep([g |-> other, c |-> c, nd |-> dropped,
                                    of |-> SetOpen(open_files, c.accessor_id, c.open)])} :
                        /\ other' = r.g /\ chop' = r.c
                        /\ node' = r.nd /\ open_files' = r.of
    /\ raised' = NoError
    /\ UNCHANGED groupFrame

\* The caller lets go of the grouped generator.
GroupDiscard ==
    /\ other.pc \in {"yielded", "done"}
    /\ other' = Idle /\ chop' = Idle
    /\ UNCHANGED <<node, open_files, raised>>
    /\ UNCHANGED groupFrame

\* File f holds traces of every nslc id, one instant long, in month f.
MixedContent(f) ==
    [i \in 1..NIds |-> [id |-> i, tmin |-> (f - 1) * MonthLen,
                        tmax |-> (f - 1) * MonthLen]]

\* The Pile is built from all files, each with one trace or with a trace of
\* every id; or it is empty.
InitGroup ==
    /\ \E mixed \in SUBSET Files :
          disk = [f \in Files |->
                     [mtime |-> 0,
                      traces |-> IF f \in mixed THEN MixedContent(f)
                                 ELSE SpanContent(f, 0)]]
    /\ \E fs \in {<<>>, [f \in Files |-> f]} :
          \E st \in {AddFilesLoop([node |-> [f \in Files |->
                                       TracesFileInit(NoParent, disk[f], disk[f].mtime)],
                                    subpiles |-> <<>>, raised |-> NoError,
                                    modified |-> {}], fs)} :
             /\ node = st.node
             /\ subpiles = st.subpiles
             /\ \E order \in Perms(st.modified) :
                   pile = Update(Update(EmptyGroup, <<>>, TRUE),
                                 SubPileGroups(st.subpiles, order), FALSE)
    /\ open_files = <<>>
    /\ chop = Idle
    /\ raised = NoError
    /\ last = NoLast
    /\ trail = <<NoOp, NoOp>>
    /\ wd = NoWeed
    /\ InitQuiet

NextGroup ==
    \/ \E gt \in Gathers, a \in GroupArgs, gsel \in Selectors, tsel \in TraceSelectors :
          GroupStart(gt, a, gsel, tsel)
    \/ GroupNext
    \/ GroupDiscard

SpecGroup == InitGroup /\ [][NextGroup]_vars

\* The key of the pass at hand.
KeyAtHand == other.keys[other.ikey]

\* The windows a chopper yields over [tmin, tmax] in steps of tinc.
WindowCount(tmin, tmax, tinc) ==
    IF tmax <= tmin THEN 0 ELSE (tmax - tmin + tinc - 1) \div tinc

\* C23: chopper_grouped takes the distinct keys once, in sorted order, and
\* runs one whole chopper per key in that order; every trace handed on in the
\* pass of key k has gather(trace) = k and passes the caller's
\* trace_selector, and only files whose gathered keys contain k and that pass
\* the caller's group_selector are consulted in it.
C23_OnePassPerKey ==
    other.pc \in {"yielded", "done"} =>
        /\ other.keys = SortedSeq(PileKeys(node, subpiles, other.gather))
        /\ \A i, j \in 1..Len(other.keys) : i < j => other.keys[i] < other.keys[j]
        /\ Len(other.passes) = IF other.pc = "done" THEN Len(other.keys)
                               ELSE other.ikey - 1
        /\ \A i \in 1..Len(other.passes) :
              /\ other.passes[i].key = other.keys[i]
              /\ Len(other.passes[i].windows) =
                    IF other.passes[i].early THEN 0
                    ELSE WindowCount(other.passes[i].tmin, other.passes[i].tmax,
                                     other.passes[i].tinc)
        /\ other.pc = "yielded" =>
              /\ \A o \in chop.offered :
                    /\ Gather(other.gather, node[o[1]].traces[o[2]]) = KeyAtHand
                    /\ HoldsTrace(other.tsel, node[o[1]].traces[o[2]])
              /\ \A f \in chop.consulted :
                    /\ KeyAtHand \in FileKeys(node, other.gather, f)
                    /\ Holds(other.gsel, node[f].idx)
              /\ chop.used \subseteq chop.consulted

\* The pass of the second key hands on a trace of a file that also holds a
\* trace of the first key, after a first pass that yielded.
C23_Witness ==
    /\ other.pc = "yielded" /\ other.ikey = 2
    /\ other.passes[1].windows # <<>>
    /\ \E o \in chop.offered :
          /\ Len(node[o[1]].traces) > 1
          /\ o[1] \in chop.used

(***************************************************************************)
(* SpecMem: a Pile that holds MemTracesFiles beside TracesFiles, under     *)
(* Pile.reload_modified and SubPile.reload_modified, while the files on    *)
(* disk are rewritten.                                                     *)
(***************************************************************************)
\* The Pile is made of all the nodes; those of mem are MemTracesFiles made
\* of traces in memory, the others TracesFiles as the loader makes them.
InitMem ==
    /\ InitDisk
    /\ \E mem \in SUBSET Files, fs \in FileSeqs :
          /\ Len(fs) = NFiles /\ \A f \in Files : InList(fs, f)
          /\ \E st \in {AddFilesLoop(
                           [node |-> [f \in Files |->
                                         IF f \in mem
                                         THEN MemTracesFileInit(NoParent, InitContent(f), MaxTime)
                                         ELSE TracesFileInit(NoParent, disk[f], disk[f].mtime)],
                            subpiles |-> <<>>, raised |-> NoError, modified |-> {}],
                           fs)} :
                /\ node = st.node
                /\ subpiles = st.subpiles
                /\ \E order \in Perms(st.modified) :
                      pile = Update(Update(EmptyGroup, <<>>, TRUE),
                                    SubPileGroups(st.subpiles, order), FALSE)
    /\ open_files = <<>>
    /\ chop = Idle
    /\ raised = NoError
    /\ last = NoLast
    /\ trail = <<NoOp, NoOp>>
    /\ wd = NoWeed
    /\ InitQuiet

\* A file on disk is rewritten; a MemTracesFile has no file.
ModifyOnDisk(f) == ~IsMem(node[f]) /\ Modify(f)

\* SubPile.reload_modified called on the SubPile k itself.
SubPileReload(k) ==
    /\ \E st \in {SubPileReloadModified(Objects @@ [modified |-> FALSE], k, disk)} :
          /\ node' = st.node
          /\ subpiles' = st.subpiles
          /\ raised' = st.raised
          /\ last' = [op |-> "subpile_reload_modified", k |-> k,
                      result |-> st.modified /\ st.raised = NoError]
    /\ heard' = Silence
    /\ UNCHANGED <<disk, pile, open_files, otherVars, listeners, obj, trail>>

NextMem ==
    \/ \E f \in Files : ModifyOnDisk(f)
    \/ PileReloadModified
    \/ \E k \in DOMAIN subpiles : SubPileReload(k)

SpecMem == InitMem /\ [][NextMem]_vars

\* The files of the SubPile or Pile on which this step calls reload_modified.
Receiver ==
    IF last'.op = "reload_modified" THEN PileFiles ELSE FilesOf(last'.k)

\* The step is a call of reload_modified on a SubPile or Pile that holds a
\* MemTracesFile.
ReloadWithMem ==
    /\ last'.op \in {"reload_modified", "subpile_reload_modified"}
    /\ \E f \in Receiver : IsMem(node[f])

\* C29: reload_modified on a SubPile or Pile that holds MemTracesFiles
\* raises nothing, leaves every MemTracesFile as it is, and returns True
\* exactly when the mtime of one of its files on disk has changed.
C29_MemNodesAreUnmodified ==
    [][ReloadWithMem =>
          /\ raised' = NoError
          /\ \A f \in Receiver : IsMem(node[f]) => node'[f] = node[f]
          /\ last'.result <=> \E f \in Receiver :
                                  ~IsMem(node[f]) /\ disk[f].mtime # node[f].mtime]_vars

====
